---- MODULE Spec2Model ----
(***************************************************************************)
(* Loop control of takopi-ralph: the /ralph start loop (handle_start), the *)
(* runner iteration (RalphRunner.run_impl), /ralph stop, /ralph reset and  *)
(* the PRD clarify commands, over the three JSON files they share          *)
(* (state.json, circuit_breaker.json, prd.json).                           *)
(*                                                                         *)
(* Every await of the handlers is a point where another command may run;   *)
(* the code between two awaits is one action.                              *)
(***************************************************************************)
EXTENDS Integers, Sequences, FiniteSets, TLC

\* ------------------------------------------------------------------ bounds
\* start.py:13 sets 50 and start.py:76 sets max_loops=100; both are scaled
\* down, keeping the breaker's threshold < MAX_ITERATIONS_PER_START < MaxLoops
\* as in the source.
MAX_ITERATIONS_PER_START == 4
MaxLoops == 5
\* number of session identifiers start_session may hand out
MaxSessions == 2
\* number of stories prd.json may hold
MaxStories == 3

\* the concurrently running /ralph start commands
Procs == {1, 2}

\* ---------------------------------------------------------------- PRD store
Titles == {"a", "c"}

Story(i, t, pr, ps) == [id |-> i, title |-> t, priority |-> pr, passes |-> ps]

EmptyPRD == [exists |-> FALSE, stories |-> << >>]

\* PRDManager.load: the file's PRD, or an empty PRD when the file is missing
prd_load(f) == IF f.exists THEN f.stories ELSE << >>

Pending(stories) == {k \in 1..Len(stories) : ~stories[k].passes}

\* the first incomplete story in the order of the file
next_story_file_order(stories) ==
    IF Pending(stories) = {} THEN 0
    ELSE stories[CHOOSE k \in Pending(stories) :
                    \A j \in Pending(stories) : k <= j].id

\* PRD.next_story: first incomplete story in priority order, ties by id
next_story(stories) ==
    IF Pending(stories) = {} THEN 0
    ELSE LET k == CHOOSE k \in Pending(stories) :
                    \A j \in Pending(stories) :
                        \/ stories[k].priority < stories[j].priority
                        \/ /\ stories[k].priority = stories[j].priority
                           /\ stories[k].id <= stories[j].id
         IN stories[k].id

\* PRD.all_complete
all_complete(stories) == Pending(stories) = {}

\* PRD.mark_story_complete: TRUE when the id exists and was incomplete
can_mark(stories, id) ==
    \E k \in 1..Len(stories) : stories[k].id = id /\ ~stories[k].passes

mark_story_complete(stories, id) ==
    [k \in 1..Len(stories) |->
        IF stories[k].id = id THEN [stories[k] EXCEPT !.passes = TRUE]
        ELSE stories[k]]

\* a mark_complete that saves whatever the outcome
mark_complete_saves_always(f, id) ==
    [exists |-> TRUE, stories |-> mark_story_complete(prd_load(f), id)]

\* PRDManager.mark_complete: load, flip, save only when something flipped
mark_complete(f, id) ==
    IF can_mark(prd_load(f), id)
    THEN [exists |-> TRUE, stories |-> mark_story_complete(prd_load(f), id)]
    ELSE f

MaxOf(S) == IF S = {} THEN 0 ELSE CHOOSE m \in S : \A x \in S : x <= m

\* PRD.add_story: append an incomplete story with the next id
add_story(stories, title, priority) ==
    Append(stories,
           Story(MaxOf({stories[k].id : k \in 1..Len(stories)}) + 1,
                 title, priority, FALSE))

\* ------------------------------------------------------------ state manager
NoResult == [present |-> FALSE, files_modified |-> 0, is_stuck |-> FALSE,
             current_story_complete |-> FALSE, has_completion_signal |-> FALSE]

\* status of a record no session was started on
DefaultStatus == "IDLE"

DefaultState == [exists |-> FALSE, status |-> DefaultStatus, current_loop |-> 0,
                 session_id |-> 0, exit_reason |-> "",
                 consecutive_no_progress |-> 0, last |-> NoResult]

\* StateManager.load: the record, a default one when the file is missing
state_load(s) == IF s.exists THEN s ELSE DefaultState

state_save(s) == [s EXCEPT !.exists = TRUE]

is_running(s) == s.exists /\ s.status = "RUNNING"

start_session(sid) ==
    [exists |-> TRUE, status |-> "RUNNING", current_loop |-> 0,
     session_id |-> sid, exit_reason |-> "",
     consecutive_no_progress |-> 0, last |-> NoResult]

end_session(s, reason, status) ==
    state_save([state_load(s) EXCEPT !.status = status, !.exit_reason = reason])

\* consecutive no-progress loops after which should_exit fires
StateNoProgressLimit == 3

update(s, r) ==
    LET old == state_load(s) IN
    state_save([old EXCEPT
        !.current_loop = old.current_loop + 1,
        !.consecutive_no_progress =
            IF r.files_modified = 0 /\ ~r.has_completion_signal
            THEN old.consecutive_no_progress + 1 ELSE 0,
        !.last = r])

\* RalphState.should_exit: <<exit?, reason>>
should_exit(s, stories) ==
    IF s.current_loop >= MaxLoops THEN <<TRUE, "Max loops reached">>
    ELSE IF s.consecutive_no_progress > StateNoProgressLimit
         THEN <<TRUE, "No progress">>
    ELSE IF s.last.has_completion_signal /\ all_complete(stories)
         THEN <<TRUE, "Completion signal">>
    ELSE <<FALSE, "">>

\* ---------------------------------------------------------- circuit breaker
BreakerThreshold == 3

ClosedBreaker == [state |-> "CLOSED", reason |-> "",
                  consecutive_no_progress |-> 0, consecutive_same_error |-> 0]

can_execute(b) == b.state # "OPEN"

record_loop_result(b, files_changed, has_errors) ==
    LET np == IF files_changed = 0 THEN b.consecutive_no_progress + 1 ELSE 0
        se == IF has_errors /\ files_changed = 0
              THEN b.consecutive_same_error + 1 ELSE 0
        trip == np >= BreakerThreshold \/ se >= BreakerThreshold
    IN [state |-> IF b.state = "OPEN" \/ trip THEN "OPEN" ELSE b.state,
        reason |-> IF b.state = "OPEN" THEN b.reason
                   ELSE IF np >= BreakerThreshold THEN "No progress"
                   ELSE IF se >= BreakerThreshold THEN "Same error"
                   ELSE b.reason,
        consecutive_no_progress |-> np,
        consecutive_same_error |-> se]

breaker_reset(reason) == [ClosedBreaker EXCEPT !.reason = reason]

\* ------------------------------------------------------- response analyzer
\* what the engine's run can end in: an answer (with or without a parseable
\* status block), a failed completion event, or a raised error
Answer(parsed, files, stuck, exit, complete) ==
    [parsed |-> parsed, files_modified |-> files, is_stuck |-> stuck,
     exit_signal |-> exit, current_story_complete |-> complete]

\* the status blocks an answer may carry: work without and with the story
\* finished, no progress, stuck, the exit signal; and no status block at all
Answers ==
    {Answer(TRUE, 1, FALSE, FALSE, FALSE), Answer(TRUE, 1, FALSE, FALSE, TRUE),
     Answer(TRUE, 0, FALSE, FALSE, FALSE), Answer(TRUE, 0, TRUE, FALSE, FALSE),
     Answer(TRUE, 1, FALSE, TRUE, FALSE),
     Answer(FALSE, 0, FALSE, FALSE, FALSE)}

Unparsed == CHOOSE a \in Answers : ~a.parsed

\* resume: the completion event carries a resume token
Outcomes ==
    {[kind |-> "ok", answer |-> a, resume |-> r] : a \in Answers, r \in BOOLEAN}
    \cup {[kind |-> "failed", answer |-> Unparsed, resume |-> FALSE],
          [kind |-> "raised", answer |-> Unparsed, resume |-> FALSE]}

\* the analysis of an answer that carries no status block
NoSignal == [files_modified |-> 0, is_stuck |-> FALSE, exit_signal |-> FALSE,
             current_story_complete |-> FALSE]

\* ResponseAnalyzer.analyze: the fields of the status block, neutral values
\* when the answer carries none
analyze(a) ==
    IF a.parsed
    THEN [files_modified |-> a.files_modified, is_stuck |-> a.is_stuck,
          exit_signal |-> a.exit_signal,
          current_story_complete |-> a.current_story_complete]
    ELSE NoSignal

\* AnalysisResult.to_loop_result
to_loop_result(a) ==
    [present |-> TRUE, files_modified |-> a.files_modified,
     is_stuck |-> a.is_stuck,
     current_story_complete |-> a.current_story_complete,
     has_completion_signal |-> a.exit_signal]

\* ------------------------------------------------------------------- state
VARIABLES
    state,      \* .ralph/state.json
    breaker,    \* .ralph/circuit_breaker.json
    prd,        \* prd.json
    nextSid,    \* next fresh session identifier
    run,        \* per /ralph start command: where it is, and its locals
    clarify,    \* the /ralph prd clarify command: where it is, and its PRD object
    save,       \* a PRDManager._atomic_write under way: its temporary file
    overlap,    \* start commands that were active when this one went into an iteration
    stop_seen,  \* a /ralph stop ended the session while this command was active
    session,    \* a ClarifySession object a command holds
    store,      \* clarify_sessions.json, and the write_text under way on it
    file,       \* prd.json as text: what json.loads and PRD.model_validate see
    out         \* the last call of a library function: its input and result

\* what the /ralph start loop and the PRD commands leave alone
lib == <<session, store, file, out>>

\* what the library calls leave alone
loop == <<state, breaker, prd, nextSid, run, clarify, save, overlap, stop_seen>>

vars == <<state, breaker, prd, nextSid, run, clarify, save, overlap, stop_seen,
          session, store, file, out>>

\* pc             where handle_start (and the runner it awaits) is
\* iteration      handle_start's iteration
\* status         handle_start's state.status, loaded at start.py:172
\* current_story  run_impl's current_story id (0 = None)
\* circuit_state  RalphStreamState.circuit_state
\* last_answer    RalphStreamState.last_answer, as the status block it carries
\* emitted        events the runner invocation yielded, in order
\* engine_resume  the resume token the runner handed to the inner engine
\* returned       run_one calls of this command that have returned
NoToken == "None"

ResumeTokens == {NoToken, "token"}

NoAnswer == [parsed |-> FALSE, files_modified |-> -1, is_stuck |-> FALSE,
             exit_signal |-> FALSE, current_story_complete |-> FALSE]

Idle == [pc |-> "idle", iteration |-> 0, status |-> DefaultStatus,
         current_story |-> 0, circuit_state |-> "CLOSED",
         last_answer |-> NoAnswer, emitted |-> << >>,
         engine_resume |-> NoToken, returned |-> 0]

Active(p) == run[p].pc # "idle"

\* pc    "analyze": handle_prd_clarify awaits the LLM analysis;
\*       "questions": a clarify session waits for the user's answers;
\*       "complete": _complete_session awaits the LLM analysis
\* prd   the PRD object the handler loaded before the await
NoClarify == [pc |-> "idle", prd |-> << >>]

\* pc       "write": the temporary file is open
\* tmp      the temporary file exists
\* written  what the temporary file holds
\* content  the serialised PRD being saved, story by story
\* failed   the last _atomic_write raised
NoSave == [pc |-> "idle", tmp |-> FALSE, written |-> << >>, content |-> << >>,
           failed |-> FALSE]

InitStories == <<Story(1, "a", 1, FALSE), Story(2, "b", 2, FALSE)>>

\* ------------------------------------------------------------ handle_start
\* the command returns its CommandResult
Return(p) ==
    /\ run' = [run EXCEPT ![p] = Idle]
    /\ overlap' = [overlap EXCEPT ![p] = {}]
    /\ stop_seen' = [stop_seen EXCEPT ![p] = FALSE]

\* start.py:111: f"Circuit breaker opened: {status.get('reason')}"
halted_reason(b) ==
    CASE b.reason = "No progress" -> "Circuit breaker opened: No progress"
      [] b.reason = "Same error" -> "Circuit breaker opened: Same error"
      [] OTHER -> "Circuit breaker opened: "

\* start.py:104-154: head of one iteration, up to the "Loop n" message
LoopHead(p) ==
    IF ~can_execute(breaker)
    THEN /\ state' = end_session(state, halted_reason(breaker), "HALTED")
         /\ Return(p)
    ELSE /\ state' = state
         /\ IF state_load(state).status # "RUNNING"
            THEN Return(p)
            ELSE /\ run' = [run EXCEPT ![p] = [Idle EXCEPT
                                         !.pc = "loop_send",
                                         !.iteration = run[p].iteration + 1,
                                         !.returned = run[p].returned]]
                 /\ overlap' = [overlap EXCEPT ![p] =
                                    @ \cup {q \in Procs \ {p} : Active(q)}]
                 /\ UNCHANGED stop_seen

\* a resume that starts the count over
resume_session_restarts(s) ==
    state_save([s EXCEPT !.status = "RUNNING", !.exit_reason = "",
                         !.current_loop = 0])

\* start.py:67-71: resume from PAUSED
resume_session(s) ==
    state_save([s EXCEPT !.status = "RUNNING", !.exit_reason = ""])

\* start.py:25-100: the checks, then start or resume the session
handle_start(p) ==
    /\ run[p].pc = "idle"
    /\ ~is_running(state)
    /\ can_execute(breaker)
    /\ prd.exists
    /\ ~all_complete(prd_load(prd))
    /\ LET is_resuming == state.exists /\ state.status = "PAUSED" IN
       IF is_resuming
       THEN /\ state' = resume_session(state)
            /\ nextSid' = nextSid
       ELSE /\ nextSid <= MaxSessions
            /\ state' = start_session(nextSid)
            /\ nextSid' = nextSid + 1
    /\ run' = [run EXCEPT ![p].pc = "announce"]
    /\ UNCHANGED <<breaker, prd, clarify, save, overlap, stop_seen, lib>>

\* start.py:85-105: the status message was sent, the loop begins
handle_start_loop(p) ==
    /\ run[p].pc = "announce"
    /\ LoopHead(p)
    /\ UNCHANGED <<breaker, prd, nextSid, save, clarify, lib>>

\* the PRD completion check left out
AfterIteration_unchecked(p, status) ==
    IF status # "RUNNING"
    THEN /\ Return(p)
         /\ state' = state
    ELSE IF run[p].iteration >= MAX_ITERATIONS_PER_START
    THEN /\ state' = state_save([state_load(state) EXCEPT
                                    !.status = "PAUSED",
                                    !.exit_reason = "Paused (safety limit)"])
         /\ Return(p)
    ELSE LoopHead(p)

\* start.py:211-235: after the iteration's summary, with the status loaded
\* at start.py:172
AfterIteration(p, status) ==
    IF status # "RUNNING"
    THEN /\ Return(p)
         /\ state' = state
    ELSE IF all_complete(prd_load(prd))
    THEN /\ state' = end_session(state, "All stories complete", "COMPLETED")
         /\ Return(p)
    ELSE IF run[p].iteration >= MAX_ITERATIONS_PER_START
    THEN /\ state' = state_save([state_load(state) EXCEPT
                                    !.status = "PAUSED",
                                    !.exit_reason = "Paused (safety limit)"])
         /\ Return(p)
    ELSE LoopHead(p)

\* the gate left out
run_impl_gate_off(b) == FALSE

\* runner.py:119-120
run_impl_gate(b) == ~can_execute(b)

\* a refusal that also ends the session
run_impl_blocked_ends(p) ==
    /\ run[p].pc = "loop_send"
    /\ run_impl_gate(breaker)
    /\ run' = [run EXCEPT
                  ![p].pc = "after_run",
                  ![p].returned = @ + 1,
                  ![p].emitted =
                      <<[type |-> "completed_error", error |-> breaker.reason]>>]
    /\ state' = end_session(state, breaker.reason, "HALTED")
    /\ UNCHANGED <<breaker, prd, nextSid, save, clarify, overlap, stop_seen, lib>>

\* start.py:162-169 with runner.py:117-126: run_one reaches the runner, whose
\* breaker gate refuses
run_impl_blocked(p) ==
    /\ run[p].pc = "loop_send"
    /\ run_impl_gate(breaker)
    /\ run' = [run EXCEPT
                  ![p].pc = "after_run",
                  ![p].returned = @ + 1,
                  ![p].emitted =
                      <<[type |-> "completed_error", error |-> breaker.reason]>>]
    /\ UNCHANGED <<state, breaker, prd, nextSid, save, clarify, overlap, stop_seen, lib>>

\* the runner's own token handed on
run_impl_inner_resume_given(resume) == resume

\* runner.py:152: the token handed to the inner engine
run_impl_inner_resume(resume) == NoToken

\* runner.py:128-152: load state and PRD, build the prompt, call the engine;
\* resume is the token the runner was given
run_impl_begin(p, resume) ==
    /\ run[p].pc = "loop_send"
    /\ ~run_impl_gate(breaker)
    /\ run' = [run EXCEPT
                  ![p].pc = "engine",
                  ![p].engine_resume = run_impl_inner_resume(resume),
                  ![p].circuit_state = breaker.state,
                  ![p].current_story =
                      IF prd.exists THEN next_story(prd_load(prd)) ELSE 0]
    /\ UNCHANGED <<state, breaker, prd, nextSid, save, clarify, overlap, stop_seen, lib>>

\* the record left out
run_impl_record_skipped(b, a) == b

\* the two arguments swapped
run_impl_record_swapped(b, a) ==
    record_loop_result(b, IF a.is_stuck THEN 1 ELSE 0, a.files_modified > 0)

\* runner.py:169-175
run_impl_record(b, a) == record_loop_result(b, a.files_modified, a.is_stuck)

\* the story marked whatever the analysis reports
run_impl_mark_always(f, a, story) ==
    IF story # 0 THEN mark_complete(f, story) ELSE f

\* runner.py:183-185
run_impl_mark(f, a, story) ==
    IF a.current_story_complete /\ story # 0 THEN mark_complete(f, story) ELSE f

\* the result recorded twice
run_impl_update_twice(s, a) ==
    update(update(s, to_loop_result(a)), to_loop_result(a))

\* runner.py:187-189
run_impl_update(s, a) == update(s, to_loop_result(a))

\* the exit signal ignored
run_impl_ends_on_exit_only(exit, exit_signal) == exit

\* runner.py:195
run_impl_ends(exit, exit_signal) == exit \/ exit_signal

\* a session that should_exit() ends is HALTED, one that only the exit
\* signal ends is COMPLETED
run_impl_exit_halts(s, stories, a) ==
    LET ex == should_exit(s, stories) IN
    IF run_impl_ends(ex[1], a.exit_signal)
    THEN end_session(s, IF ex[2] # "" THEN ex[2] ELSE "Exit signal received",
                     IF ex[1] THEN "HALTED" ELSE "COMPLETED")
    ELSE s

\* runner.py:191-197
run_impl_exit(s, stories, a) ==
    LET ex == should_exit(s, stories) IN
    IF run_impl_ends(ex[1], a.exit_signal)
    THEN end_session(s, IF ex[2] # "" THEN ex[2] ELSE "Exit signal received",
                     "COMPLETED")
    ELSE s

\* runner.py:199-213: the telemetry event, after the inner engine's events
run_impl_telemetry(captured_resume) ==
    IF captured_resume THEN <<[type |-> "telemetry", error |-> ""]>> ELSE << >>

\* runner.py:152-213: the engine's run ends; analysis, breaker, PRD, state
run_impl_finish(p, o) ==
    /\ run[p].pc = "engine"
    /\ UNCHANGED <<nextSid, save, clarify, overlap, stop_seen, lib>>
    /\ IF o.kind = "raised"
       THEN /\ run' = [run EXCEPT ![p].pc = "after_run",
                                  ![p].returned = @ + 1,
                                  ![p].engine_resume = NoToken,
                                  ![p].current_story = 0,
                                  ![p].circuit_state = "CLOSED"]
            /\ UNCHANGED <<state, breaker, prd>>
       ELSE LET a == analyze(o.answer)
                f == run_impl_mark(prd, a, run[p].current_story)
            IN /\ breaker' = run_impl_record(breaker, a)
               /\ prd' = f
               /\ state' = run_impl_exit(run_impl_update(state, a),
                                         prd_load(f), a)
               /\ run' = [run EXCEPT
                     ![p].pc = "after_run",
                     ![p].returned = @ + 1,
                     ![p].engine_resume = NoToken,
                     ![p].current_story = 0,
                     ![p].circuit_state = "CLOSED",
                     ![p].last_answer = o.answer,
                     ![p].emitted =
                        <<[type |-> IF o.kind = "ok" THEN "completed"
                                    ELSE "completed_error",
                           error |-> IF o.kind = "ok" THEN "" ELSE "engine"]>>
                        \o run_impl_telemetry(o.resume)]

\* start.py:175-210: the last result makes handle_start send a summary
SendsSummary(r) ==
    /\ r.present
    /\ \/ r.is_stuck
       \/ r.current_story_complete
       \/ r.has_completion_signal
       \/ r.files_modified > 0

\* run_one not awaited
run_one_not_awaited(p) == run[p].pc \in {"engine", "after_run"}

\* start.py:163-169: the await of run_one is over
run_one_returned(p) == run[p].pc = "after_run"

\* start.py:171-210, and on to the next loop head when no summary is sent
handle_start_after_run(p) ==
    /\ run_one_returned(p)
    /\ UNCHANGED <<breaker, prd, nextSid, save, clarify, lib>>
    /\ IF SendsSummary(state_load(state).last)
       THEN /\ run' = [run EXCEPT ![p].pc = "summary_send",
                                  ![p].status = state_load(state).status,
                                  ![p].last_answer = NoAnswer,
                                  ![p].emitted = << >>]
            /\ UNCHANGED <<state, overlap, stop_seen>>
       ELSE AfterIteration(p, state_load(state).status)

\* start.py:211-235 once the summary message was sent
handle_start_summary_sent(p) ==
    /\ run[p].pc = "summary_send"
    /\ AfterIteration(p, run[p].status)
    /\ UNCHANGED <<breaker, prd, nextSid, save, clarify, lib>>

\* ------------------------------------------------------------- handle_stop
\* a stop that ends whatever session the state file holds
handle_stop_any_status ==
    /\ state.exists
    /\ state' = end_session(state, "User requested stop", "COMPLETED")
    /\ stop_seen' = [p \in Procs |-> stop_seen[p] \/ Active(p)]
    /\ UNCHANGED <<breaker, prd, nextSid, save, run, clarify, overlap, lib>>

\* stop.py:26-38: the state file exists and its status is RUNNING
handle_stop ==
    /\ state.exists
    /\ state.status = "RUNNING"
    /\ state' = end_session(state, "User requested stop", "COMPLETED")
    /\ stop_seen' = [p \in Procs |-> stop_seen[p] \/ Active(p)]
    /\ UNCHANGED <<breaker, prd, nextSid, save, run, clarify, overlap, lib>>

\* ------------------------------------------------------------ handle_reset
\* the handler's body, run on the project directory
handle_reset(reset_all) ==
    /\ breaker' = breaker_reset("User requested reset")
    /\ state' = IF reset_all THEN DefaultState ELSE state
    /\ UNCHANGED <<prd, nextSid, save, run, clarify, overlap, stop_seen, lib>>

\* ------------------------------------------------------------ PRD commands
\* what the LLM analysis returns: questions, or a list of suggested stories
Suggestions == {<< >>} \cup {<<[title |-> t, priority |-> 3]>> : t \in Titles}

AnalysisResults == [questions : BOOLEAN, suggested_stories : Suggestions]

HasTitle(stories, t) == \E k \in 1..Len(stories) : stories[k].title = t

RECURSIVE AddSuggested(_, _)
\* prd.py:409-421, clarify.py:323-336: add the suggested stories whose title
\* no story of the PRD object carries yet
AddSuggested(stories, sugg) ==
    IF sugg = << >> THEN stories
    ELSE AddSuggested(
            IF HasTitle(stories, Head(sugg).title) THEN stories
            ELSE add_story(stories, Head(sugg).title, Head(sugg).priority),
            Tail(sugg))

\* PRDManager.save
prd_save(stories) == [exists |-> TRUE, stories |-> stories]

\* prd.py:345-380: load the PRD, then await the analysis
handle_prd_clarify ==
    /\ clarify.pc = "idle"
    /\ prd.exists
    /\ clarify' = [pc |-> "analyze", prd |-> prd_load(prd)]
    /\ UNCHANGED <<state, breaker, prd, nextSid, save, run, overlap, stop_seen, lib>>

\* prd.py:382-442: the analysis is back
handle_prd_clarify_result(r) ==
    /\ clarify.pc = "analyze"
    /\ Len(AddSuggested(clarify.prd, r.suggested_stories)) <= MaxStories
    /\ IF r.questions
       THEN /\ clarify' = [pc |-> "questions", prd |-> << >>]
            /\ prd' = prd
       ELSE /\ clarify' = NoClarify
            /\ prd' = IF AddSuggested(clarify.prd, r.suggested_stories) # clarify.prd
                      THEN prd_save(AddSuggested(clarify.prd, r.suggested_stories))
                      ELSE prd
    /\ UNCHANGED <<state, breaker, nextSid, save, run, overlap, stop_seen, lib>>

\* clarify.py:287-321: the last answer of an enhance session arrived; load
\* the PRD (a new one when prd.json is gone), then await the analysis
complete_session ==
    /\ clarify.pc = "questions"
    /\ clarify' = [pc |-> "complete", prd |-> prd_load(prd)]
    /\ UNCHANGED <<state, breaker, prd, nextSid, save, run, overlap, stop_seen, lib>>

\* clarify.py:323-342: the analysis is back; add the stories, save
complete_session_result(r) ==
    /\ clarify.pc = "complete"
    /\ Len(AddSuggested(clarify.prd, r.suggested_stories)) <= MaxStories
    /\ prd' = prd_save(AddSuggested(clarify.prd, r.suggested_stories))
    /\ clarify' = NoClarify
    /\ UNCHANGED <<state, breaker, nextSid, save, run, overlap, stop_seen, lib>>

\* PRDManager.add_story (manager.py:153-164): load, append, save
prd_add_story(t, pr) ==
    /\ Len(prd_load(prd)) < MaxStories
    /\ prd' = prd_save(add_story(prd_load(prd), t, pr))
    /\ UNCHANGED <<state, breaker, nextSid, save, run, clarify, overlap, stop_seen, lib>>

\* ------------------------------------------------------- PRDManager.save
\* the write done on prd.json itself
atomic_write_in_place(f, written) == [exists |-> TRUE, stories |-> written]

\* manager.py:120-122: what a write to the temporary file does to prd.json
atomic_write_dest(f, written) == f

\* manager.py:117-120: save(prd) serialises the PRD and makes the temporary
\* file next to prd.json
atomic_write_begin(content) ==
    /\ save.pc = "idle"
    /\ save' = [pc |-> "write", tmp |-> TRUE, written |-> << >>,
                content |-> content, failed |-> FALSE]
    /\ prd' = atomic_write_dest(prd, << >>)
    /\ UNCHANGED <<state, breaker, nextSid, run, clarify, overlap, stop_seen, lib>>

\* manager.py:153-164: PRDManager.add_story up to the write
save_add_story(t, pr) ==
    /\ Len(prd_load(prd)) < MaxStories
    /\ atomic_write_begin(add_story(prd_load(prd), t, pr))

\* manager.py:166-175: PRDManager.mark_complete up to the write
save_mark_complete(id) ==
    /\ can_mark(prd_load(prd), id)
    /\ atomic_write_begin(mark_story_complete(prd_load(prd), id))

\* manager.py:121-122: f.write, one story's text at a time
atomic_write_chunk ==
    /\ save.pc = "write"
    /\ Len(save.written) < Len(save.content)
    /\ save' = [save EXCEPT
                   !.written = Append(@, save.content[Len(save.written) + 1])]
    /\ prd' = atomic_write_dest(prd, save'.written)
    /\ UNCHANGED <<state, breaker, nextSid, run, clarify, overlap, stop_seen, lib>>

\* manager.py:125-127: the write or the rename raised; the temporary file is
\* unlinked and the error raised again
atomic_write_fail ==
    /\ save.pc = "write"
    /\ save' = [NoSave EXCEPT !.failed = TRUE]
    /\ UNCHANGED <<state, breaker, prd, nextSid, run, clarify, overlap, stop_seen, lib>>

\* manager.py:123: the temporary file replaces prd.json
atomic_write_replace ==
    /\ save.pc = "write"
    /\ save.written = save.content
    /\ prd' = [exists |-> TRUE, stories |-> save.written]
    /\ save' = NoSave
    /\ UNCHANGED <<state, breaker, nextSid, run, clarify, overlap, stop_seen, lib>>

\* ---------------------------------------------------------- ClarifySession
\* number of default questions get_all_questions returns
MaxQuestions == 2

\* questions.py:32-103: the identifiers of QUESTIONS, in order
QuestionIds ==
    <<"mvp_scope", "out_of_scope", "tech_stack", "primary_user", "user_skill",
      "external_apis", "auth_method", "error_handling", "offline_support",
      "testing_level", "performance">>

\* questions.py:119-121: get_all_questions
get_all_questions == SubSeq(QuestionIds, 1, MaxQuestions)

\* the identifier of a question a caller made, not one of QUESTIONS
CustomQuestion == "custom"

AnswerTexts == {"x", "y"}

NoQuestion == "None"

NoAnswers == [q \in {} |-> "x"]

\* custom_question_ids = None
NoCustom == [given |-> FALSE, ids |-> {}]

\* flow.py:138: the identifiers of a non-empty list of questions, else None
custom_ids(questions) ==
    IF questions = {} THEN NoCustom ELSE [given |-> TRUE, ids |-> questions]

\* the question lists create_session is given
QuestionLists == SUBSET ({get_all_questions[k] : k \in 1..MaxQuestions}
                            \cup {CustomQuestion})

\* datetime.isoformat and datetime.fromisoformat
isoformat(t) == [iso |-> t]

fromisoformat(text) == text.iso

\* flow.py:14-36: a new session
ClarifySession(id, topic, custom, mode) ==
    [id |-> id, topic |-> topic, created_at |-> 1,
     current_question_index |-> 0, answers |-> NoAnswers,
     custom_question_ids |-> custom, mode |-> mode,
     emerging_requirements |-> << >>, is_complete |-> FALSE]

\* flow.py:38-44: the default questions, filtered to the custom identifiers
get_questions(s) ==
    IF ~s.custom_question_ids.given THEN get_all_questions
    ELSE SelectSeq(get_all_questions,
                   LAMBDA q : q \in s.custom_question_ids.ids)

\* flow.py:46-51
current_question(s) ==
    IF s.current_question_index >= Len(get_questions(s)) THEN NoQuestion
    ELSE get_questions(s)[s.current_question_index + 1]

\* self.answers[question.id] = answer
Put(answers, q, a) ==
    [k \in DOMAIN answers \cup {q} |-> IF k = q THEN a ELSE answers[k]]

\* the session after the index moved on, and what the step returns
advance(s) ==
    LET index == s.current_question_index + 1
        done == index >= Len(get_questions(s))
    IN  [session |-> [s EXCEPT !.current_question_index = index,
                               !.is_complete = IF done THEN TRUE ELSE @],
         ret |-> ~done]

\* the answer replaces the answers map
record_answer_forgets(s, answer) ==
    advance([s EXCEPT !.answers =
                IF current_question(s) # NoQuestion
                THEN Put(NoAnswers, current_question(s), answer) ELSE @])

\* flow.py:53-69
record_answer(s, answer) ==
    advance([s EXCEPT !.answers =
                IF current_question(s) # NoQuestion
                THEN Put(@, current_question(s), answer) ELSE @])

\* flow.py:71-83
skip_question(s) == advance(s)

\* Python's None
None == [none |-> TRUE]

NoCall == [op |-> "none", arg |-> None, ret |-> None, steps |-> 0]

\* two calls differ in the function, the argument or the result
Differs(a, b) ==
    IF a.op # b.op THEN TRUE
    ELSE IF a.arg # b.arg THEN TRUE
    ELSE IF a.ret # b.ret THEN TRUE
    ELSE a.steps # b.steps

NoSessionHeld == None

\* clarify.py:194-208: the user's reply is recorded as the answer
call_record_answer(a) ==
    /\ session # None
    /\ out.steps <= MaxQuestions
    /\ session.current_question_index <= Len(get_questions(session))
    /\ session' = record_answer(session, a).session
    /\ out' = [op |-> "record_answer", arg |-> a,
               ret |-> record_answer(session, a).ret, steps |-> out.steps + 1]
    /\ UNCHANGED <<loop, store, file>>

\* clarify.py:191-192: the user's reply is "skip"
call_skip_question ==
    /\ session # None
    /\ out.steps <= MaxQuestions
    /\ session.current_question_index <= Len(get_questions(session))
    /\ session' = skip_question(session).session
    /\ out' = [op |-> "skip_question", arg |-> "skip",
               ret |-> skip_question(session).ret, steps |-> out.steps + 1]
    /\ UNCHANGED <<loop, store, file>>

\* ------------------------------------------------------------- ClarifyFlow
\* number of sessions create_session makes
MaxStored == 2

\* the empty dict of sessions
NoSessions == [id \in {} |-> None]

\* clarify_sessions.json does not exist
NoSessionsFile == [exists |-> FALSE, json |-> FALSE, sessions |-> NoSessions]

\* json.dumps(sessions): the text of a JSON object, one member per session
dumps(sessions) == [exists |-> TRUE, json |-> TRUE, sessions |-> sessions]

\* the file open() has truncated: an empty text, which is not JSON
truncated == [exists |-> TRUE, json |-> FALSE, sessions |-> NoSessions]

\* flow.py:104-113: {} for a missing file and for a text json.loads rejects
load_sessions(f) ==
    IF ~f.exists THEN NoSessions
    ELSE IF ~f.json THEN NoSessions
    ELSE f.sessions

\* a snapshot that restarts the question index
snapshot_restarted(s) ==
    [id |-> s.id, topic |-> s.topic, created_at |-> isoformat(s.created_at),
     current_question_index |-> 0, answers |-> s.answers,
     custom_question_ids |-> s.custom_question_ids, mode |-> s.mode,
     is_complete |-> s.is_complete]

\* flow.py:148-157 and 183-192: the dict stored for a session
snapshot(s) ==
    [id |-> s.id, topic |-> s.topic, created_at |-> isoformat(s.created_at),
     current_question_index |-> s.current_question_index,
     answers |-> s.answers, custom_question_ids |-> s.custom_question_ids,
     mode |-> s.mode, is_complete |-> s.is_complete]

\* sessions[id] = data
PutSession(sessions, id, data) ==
    [k \in DOMAIN sessions \cup {id} |-> IF k = id THEN data ELSE sessions[k]]

\* del sessions[id]
DelSession(sessions, id) == [k \in DOMAIN sessions \ {id} |-> sessions[k]]

\* flow.py:162-178: the session rebuilt from its snapshot, or None
get_session(f, id) ==
    IF id \notin DOMAIN load_sessions(f) THEN None
    ELSE LET data == load_sessions(f)[id]
         IN  [id |-> data.id, topic |-> data.topic,
              created_at |-> fromisoformat(data.created_at),
              current_question_index |-> data.current_question_index,
              answers |-> data.answers,
              custom_question_ids |-> data.custom_question_ids,
              mode |-> data.mode, emerging_requirements |-> << >>,
              is_complete |-> data.is_complete]

\* pc       "write": write_text has opened clarify_sessions.json
\* op, arg  the ClarifyFlow call under way or last made, and the session
\*          (for delete_session, the session identifier) it was given
\* content  the sessions being written
\* before   clarify_sessions.json when the call began
\* next     the identifier the next new session gets (uuid4 taken as fresh)
\* failed   the last write_text raised
NoStore == [file |-> NoSessionsFile, pc |-> "idle", op |-> "none",
            arg |-> None, content |-> NoSessions, before |-> NoSessionsFile,
            next |-> 1, failed |-> FALSE]

\* flow.py:119: write_text opens the file for writing, which empties it
write_text_open(f) == truncated

\* flow.py:115-119: _save_sessions up to the opened file
save_sessions(op, arg, sessions) ==
    store' = [store EXCEPT !.file = write_text_open(store.file),
                           !.pc = "write", !.op = op, !.arg = arg,
                           !.content = sessions, !.before = store.file,
                           !.failed = FALSE]

\* flow.py:121-160
flow_create_session(topic, questions, mode) ==
    /\ store.pc = "idle"
    /\ store.next <= MaxStored
    /\ LET s == ClarifySession(store.next, topic, custom_ids(questions), mode)
       IN  /\ session' = s
           /\ store' = [store EXCEPT
                           !.file = write_text_open(store.file),
                           !.pc = "write", !.op = "create_session",
                           !.arg = s, !.before = store.file,
                           !.content = PutSession(load_sessions(store.file),
                                                  s.id, snapshot(s)),
                           !.next = @ + 1, !.failed = FALSE]
    /\ UNCHANGED <<loop, file, out>>

\* clarify.py:179: the command takes up a stored session
flow_get_session(id) ==
    /\ store.pc = "idle"
    /\ session' = get_session(store.file, id)
    /\ session' # session
    /\ UNCHANGED <<loop, store, file, out>>

\* clarify.py:194-208: the command records the user's reply in the session
\* it holds
clarify_record_answer(a) ==
    /\ store.pc = "idle"
    /\ session # None
    /\ ~session.is_complete
    /\ session' = record_answer(session, a).session
    /\ UNCHANGED <<loop, store, file, out>>

\* clarify.py:191-192: the user's reply is "skip"
clarify_skip_question ==
    /\ store.pc = "idle"
    /\ session # None
    /\ ~session.is_complete
    /\ session' = skip_question(session).session
    /\ UNCHANGED <<loop, store, file, out>>

\* flow.py:180-193
flow_update_session ==
    /\ store.pc = "idle"
    /\ session # None
    /\ save_sessions("update_session", session,
                     PutSession(load_sessions(store.file), session.id,
                                snapshot(session)))
    /\ UNCHANGED <<loop, session, file, out>>

\* flow.py:195-200: the file is written only when the session is stored
flow_delete_session(id) ==
    /\ store.pc = "idle"
    /\ IF id \in DOMAIN load_sessions(store.file)
       THEN save_sessions("delete_session", [id |-> id],
                          DelSession(load_sessions(store.file), id))
       ELSE /\ store.op # "delete_session" \/ store.arg # [id |-> id]
            /\ store' = [store EXCEPT !.op = "delete_session",
                                      !.arg = [id |-> id],
                                      !.failed = FALSE]
    /\ UNCHANGED <<loop, session, file, out>>

\* flow.py:119: the text is written and the file closed; the call returns
write_text_write ==
    /\ store.pc = "write"
    /\ store' = [store EXCEPT !.file = dumps(store.content), !.pc = "idle",
                              !.arg = [id |-> @.id],
                              !.content = NoSessions,
                              !.before = NoSessionsFile]
    /\ UNCHANGED <<loop, session, file, out>>

\* flow.py:119: the write raises OSError; the call raises it on
write_text_fail ==
    /\ store.pc = "write"
    /\ store' = [store EXCEPT !.pc = "idle", !.failed = TRUE,
                              !.arg = [id |-> @.id],
                              !.content = NoSessions,
                              !.before = NoSessionsFile]
    /\ UNCHANGED <<loop, session, file, out>>

\* flow.py:162-178: get_session of a command in another process, made while
\* the write is under way
other_get_session(id) ==
    /\ store.pc = "write"
    /\ out' = [op |-> "get_session", arg |-> id,
               ret |-> get_session(store.file, id), steps |-> 0]
    /\ Differs(out', out)
    /\ UNCHANGED <<loop, session, store, file>>

\* -------------------------------------------------------------- PRDManager
\* the story lists of PRDs with unique story identifiers
StoryLists(priorities) ==
    UNION {{l \in [1..n -> {Story(i, "a", pr, ps) :
                                i \in 1..MaxStories, pr \in priorities,
                                ps \in BOOLEAN}] :
                \A j, k \in 1..n : j # k => l[j].id # l[k].id} :
           n \in 0..MaxStories}

\* manager.py:177-180: PRDManager.next_story
call_next_story ==
    /\ out' = [op |-> "next_story", arg |-> 0,
               ret |-> next_story(prd_load(prd)), steps |-> 0]
    /\ Differs(out', out)
    /\ UNCHANGED <<loop, session, store, file>>

\* manager.py:182-185: PRDManager.all_complete
call_all_complete ==
    /\ out' = [op |-> "all_complete", arg |-> 0,
               ret |-> all_complete(prd_load(prd)), steps |-> 0]
    /\ Differs(out', out)
    /\ UNCHANGED <<loop, session, store, file>>

\* manager.py:166-175: PRDManager.mark_complete; ret holds what this call
\* returns, after what the call before it returned when that call was for
\* the same story
call_mark_complete(id) ==
    /\ prd' = mark_complete(prd, id)
    /\ out' = [op |-> "mark_complete", arg |-> id,
               ret |-> (IF out.op = "mark_complete" /\ out.arg = id
                        THEN <<out.ret[Len(out.ret)]>> ELSE << >>)
                       \o <<can_mark(prd_load(prd), id)>>,
               steps |-> 0]
    /\ Differs(out', out)
    /\ UNCHANGED <<state, breaker, nextSid, run, clarify, save, overlap,
                   stop_seen, session, store, file>>

\* ------------------------------------------------------- prd.json as text
\* the PRD object: PRD(project_name, description, stories)
PRD(project_name, description, stories) ==
    [project_name |-> project_name, description |-> description,
     stories |-> stories]

\* manager.py:79, 87, 94, 97: PRD(project_name="", description="")
EmptyPRDObject == PRD("", "", << >>)

NoFile == [exists |-> FALSE, text |-> [kind |-> "none"]]

\* a file whose bytes are not text in the locale's encoding
Undecodable == [exists |-> TRUE, text |-> [kind |-> "bytes"]]

\* a file whose text json.loads rejects
Malformed == [exists |-> TRUE, text |-> [kind |-> "garbage"]]

\* a file whose text is a JSON number
JsonNumber == [exists |-> TRUE, text |-> [kind |-> "number"]]

StoryNames ==
    {"id", "title", "description", "acceptance_criteria", "priority",
     "passes", "notes"}

PRDNames ==
    {"project_name", "description", "created_at", "stories", "quality_level",
     "feedback_commands"}

\* UserStory.model_dump_json: the story as a JSON object
story_dump(st) ==
    [names |-> StoryNames, id |-> st.id, title |-> st.title,
     priority |-> st.priority, passes |-> st.passes]

\* PRD.model_dump_json: the PRD as the text of a JSON object
model_dump_json(p) ==
    [kind |-> "object", names |-> PRDNames, project_name |-> p.project_name,
     description |-> p.description,
     stories |-> [k \in 1..Len(p.stories) |-> story_dump(p.stories[k])]]

\* a document in the schema the validator warns about: name and tasks
LegacyText ==
    [kind |-> "object", names |-> {"name", "tasks"}, project_name |-> "",
     description |-> "", stories |-> << >>]

\* a document in the schema but for its stories, which it lists as tasks
TasksText ==
    [kind |-> "object", names |-> (PRDNames \ {"stories"}) \cup {"tasks"},
     project_name |-> "Demo", description |-> "about", stories |-> << >>]

\* a document with a story that has no id
StoryWithoutId ==
    [kind |-> "object", names |-> PRDNames, project_name |-> "Demo",
     description |-> "about",
     stories |-> <<[names |-> StoryNames \ {"id"}, id |-> 0, title |-> "a",
                    priority |-> 1, passes |-> FALSE]>>]

\* pydantic's ValidationError.errors() for PRD.model_validate(data)
validation_errors(text) ==
    IF text.kind # "object" THEN <<"Input should be an object">>
    ELSE (IF "project_name" \in text.names THEN << >>
          ELSE <<"project_name: Field required">>)
         \o (IF "description" \in text.names THEN << >>
             ELSE <<"description: Field required">>)
         \o (IF "stories" \in text.names
                /\ \E k \in 1..Len(text.stories) :
                        ~({"id", "title"} \subseteq text.stories[k].names)
             THEN <<"stories: Field required">> ELSE << >>)

\* PRD.model_validate(data) when it does not raise
model_validate(text) ==
    PRD(text.project_name, text.description,
        IF "stories" \in text.names
        THEN [k \in 1..Len(text.stories) |->
                Story(text.stories[k].id, text.stories[k].title,
                      text.stories[k].priority, text.stories[k].passes)]
        ELSE << >>)

Returned(v) == [raised |-> "none", errors |-> << >>, ret |-> v]

Raised(type, errors) == [raised |-> type, errors |-> errors, ret |-> None]

\* manager.py:71-97: PRDManager.load; JSONDecodeError, ValidationError and
\* OSError are caught, the UnicodeDecodeError of read_text is not
PRDManager_load(f) ==
    IF ~f.exists THEN Returned(EmptyPRDObject)
    ELSE IF f.text.kind = "bytes" THEN Raised("UnicodeDecodeError", << >>)
    ELSE IF f.text.kind = "garbage" THEN Returned(EmptyPRDObject)
    ELSE IF validation_errors(f.text) # << >> THEN Returned(EmptyPRDObject)
    ELSE Returned(model_validate(f.text))

\* manager.py:35-69: PRDManager.validate; "name" in data raises TypeError
\* when data is a number
PRDManager_validate(f) ==
    IF ~f.exists THEN Returned(<<"prd.json does not exist">>)
    ELSE IF f.text.kind = "bytes" THEN Raised("UnicodeDecodeError", << >>)
    ELSE IF f.text.kind = "garbage" THEN Returned(<<"Invalid JSON">>)
    ELSE IF f.text.kind = "number" THEN Raised("TypeError", << >>)
    ELSE Returned(
            (IF "name" \in f.text.names /\ "project_name" \notin f.text.names
             THEN <<"Found 'name' but expected 'project_name'">> ELSE << >>)
            \o (IF "tasks" \in f.text.names /\ "stories" \notin f.text.names
                THEN <<"Found 'tasks' but expected 'stories'">> ELSE << >>)
            \o validation_errors(f.text))

\* manager.py:99-110: PRDManager.load_strict
PRDManager_load_strict(f) ==
    IF ~f.exists THEN Raised("PRDValidationError", << >>)
    ELSE IF PRDManager_validate(f).raised # "none" THEN PRDManager_validate(f)
    ELSE IF PRDManager_validate(f).ret # << >>
         THEN Raised("PRDValidationError", PRDManager_validate(f).ret)
    ELSE PRDManager_load(f)

\* a write that leaves an existing prd.json as it is
atomic_write_unless_exists(f, content) ==
    IF f.exists THEN f ELSE [exists |-> TRUE, text |-> content]

\* manager.py:117-127: _atomic_write when it returns
atomic_write(f, content) == [exists |-> TRUE, text |-> content]

\* manager.py:112-115: PRDManager.save
PRDManager_save(f, p) == atomic_write(f, model_dump_json(p))

\* the PRD objects a command saves
PRDObjects ==
    {PRD(n, d, l) : n \in {"", "Demo"}, d \in {"", "about"},
                    l \in StoryLists({1})}

\* the prd.json a command finds
TextFiles ==
    {NoFile, Undecodable, Malformed, JsonNumber,
     [exists |-> TRUE, text |-> LegacyText],
     [exists |-> TRUE, text |-> TasksText],
     [exists |-> TRUE, text |-> StoryWithoutId]}
    \cup {PRDManager_save(NoFile, PRD("Old", "", l)) :
            l \in {e \in StoryLists({1}) : Len(e) <= 1}}

\* manager.py:112-115: the command saves the PRD object it holds
call_save ==
    /\ file' = PRDManager_save(file, out.arg)
    /\ out' = [out EXCEPT !.op = "save", !.ret = Returned(None)]
    /\ UNCHANGED <<loop, session, store>>

\* manager.py:71-97
call_load ==
    /\ out' = [out EXCEPT !.op = "load", !.ret = PRDManager_load(file)]
    /\ UNCHANGED <<loop, session, store, file>>

\* manager.py:35-69
call_validate ==
    /\ out' = [out EXCEPT !.op = "validate",
                          !.ret = PRDManager_validate(file)]
    /\ UNCHANGED <<loop, session, store, file>>

\* manager.py:99-110
call_load_strict ==
    /\ out' = [out EXCEPT !.op = "load_strict",
                          !.ret = PRDManager_load_strict(file)]
    /\ UNCHANGED <<loop, session, store, file>>

\* ------------------------------------------------------------ PRD builders
\* number of stories of the PRD enhance_prd_from_session is given
MaxExisting == 2
\* number of features a description lists
MaxFeatures == 12

\* prd_parser.py:138: features[:10]
FeatureLimit == 10

\* answers.get(key, default)
Get(answers, key, default) ==
    IF key \in DOMAIN answers THEN answers[key] ELSE default

\* the words of an answer; Python's "word in text" for the answers used here
Words(text) ==
    CASE text = "Next.js with TypeScript" -> {"Next.js", "with", "TypeScript"}
      [] text = "All errors" -> {"All", "errors"}
      [] OTHER -> {text}

\* str.lower on the titles used here
lower(title) ==
    CASE title = "User Authentication" -> "user authentication"
      [] title = "USER AUTHENTICATION" -> "user authentication"
      [] title = "Testing Implementation" -> "testing implementation"
      [] title = "Error Handling" -> "error handling"
      [] title = "External Integrations" -> "external integrations"
      [] title = "Extended Features" -> "extended features"
      [] title = "Project Setup" -> "project setup"
      [] title = "TypeScript Configuration" -> "typescript configuration"
      [] title = "Core Feature Implementation" -> "core feature implementation"
      [] title = "Documentation" -> "documentation"
      [] OTHER -> title

\* every story gets the first id and priority
Numbered_alike(titles, first_id, first_priority) ==
    [k \in 1..Len(titles) |->
        Story(first_id, titles[k], first_priority, FALSE)]

\* the stories of a list of titles, id and priority counted from first
Numbered(titles, first_id, first_priority) ==
    [k \in 1..Len(titles) |->
        Story(first_id + k - 1, titles[k], first_priority + k - 1, FALSE)]

\* one title when the condition holds
When(cond, title) == IF cond THEN <<title>> ELSE << >>

\* prd_builder.py:29-33, 47-51, 65-70, 84-88, 101-105, 119-123, 137-141,
\* 153-157: the acceptance criteria the builder gives the story of a title;
\* a story of another title has the schema's default, no criterion
acceptance_criteria(title) ==
    CASE title = "Project Setup" ->
            <<"Project structure created", "Dependencies installed",
              "Basic configuration in place">>
      [] title = "TypeScript Configuration" ->
            <<"tsconfig.json configured", "No TypeScript errors",
              "Proper module resolution">>
      [] title = "User Authentication" ->
            <<"Users can sign up", "Users can log in", "Sessions are secure",
              "Logout works correctly">>
      [] title = "External Integrations" ->
            <<"API connections established",
              "Error handling for API failures",
              "Proper authentication with external services">>
      [] title = "Core Feature Implementation" ->
            <<"Core feature works as expected", "Basic user flow complete",
              "No critical bugs">>
      [] title = "Error Handling" ->
            <<"User-friendly error messages", "Errors are logged",
              "No unhandled exceptions">>
      [] title = "Testing Implementation" ->
            <<"Tests for core functionality", "All tests passing",
              "Test coverage meets requirements">>
      [] title = "Documentation" ->
            <<"README with setup instructions",
              "API documentation if applicable", "Code is well-commented">>
      [] OTHER -> << >>

\* the authentication story for every answer but "None needed", the missing
\* answer included
build_prd_from_session_auth_default(s) ==
    LET answers == s.answers
        auth_method == Get(answers, "auth_method", "")
        testing_level == Get(answers, "testing_level", "Minimal")
    IN  PRD(s.topic, s.topic,
            Numbered(
                <<"Project Setup">>
                \o When(auth_method # "None needed", "User Authentication")
                \o <<"Core Feature Implementation">>
                \o When(testing_level # "Minimal", "Testing Implementation")
                \o <<"Documentation">>,
                1, 1))

\* prd_builder.py:11-179
build_prd_from_session(s) ==
    LET answers == s.answers
        tech_stack == Get(answers, "tech_stack", "")
        auth_method == Get(answers, "auth_method", "")
        external_apis == Get(answers, "external_apis", "")
        error_handling == Get(answers, "error_handling", "")
        testing_level == Get(answers, "testing_level", "Minimal")
    IN  PRD(s.topic, s.topic,
            Numbered(
                <<"Project Setup">>
                \o When("Next.js" \in Words(tech_stack)
                            \/ "TypeScript" \in Words(tech_stack),
                        "TypeScript Configuration")
                \o When(auth_method # "" /\ auth_method # "None needed",
                        "User Authentication")
                \o When(external_apis # "" /\ external_apis # "None",
                        "External Integrations")
                \o <<"Core Feature Implementation">>
                \o When(error_handling # ""
                            /\ "All" \in Words(error_handling),
                        "Error Handling")
                \o When(testing_level # "Minimal", "Testing Implementation")
                \o <<"Documentation">>,
                1, 1))

\* the duplicate test without str.lower
is_new_title_exact(existing_prd, title) ==
    title \notin {existing_prd.stories[k].title :
                    k \in 1..Len(existing_prd.stories)}

\* prd_builder.py:189, 199: title.lower() not in existing_titles
is_new_title(existing_prd, title) ==
    lower(title) \notin {lower(existing_prd.stories[k].title) :
                            k \in 1..Len(existing_prd.stories)}

\* prd_builder.py:182-281
enhance_prd_from_session(existing_prd, s) ==
    LET answers == s.answers
        auth_method == Get(answers, "auth_method", "")
        testing_level == Get(answers, "testing_level", "")
        error_handling == Get(answers, "error_handling", "")
        external_apis == Get(answers, "external_apis", "")
        mvp_scope == Get(answers, "mvp_scope", "")
        next_id == MaxOf({existing_prd.stories[k].id :
                            k \in 1..Len(existing_prd.stories)}) + 1
        next_priority == MaxOf({existing_prd.stories[k].priority :
                                  k \in 1..Len(existing_prd.stories)}) + 1
        asked ==
            When(auth_method # "" /\ auth_method # "None needed",
                 "User Authentication")
            \o When(testing_level # "" /\ testing_level # "Minimal",
                    "Testing Implementation")
            \o When(error_handling # ""
                        /\ ("All" \in Words(error_handling)
                            \/ "Comprehensive" \in Words(error_handling)),
                    "Error Handling")
            \o When(external_apis # "" /\ external_apis # "None",
                    "External Integrations")
            \o When(mvp_scope # "" /\ mvp_scope = "Full feature set",
                    "Extended Features")
        new_titles == SelectSeq(asked,
                                LAMBDA t : is_new_title(existing_prd, t))
    IN  [existing_prd EXCEPT
            !.stories = @ \o Numbered(new_titles, next_id, next_priority)]

\* prd_parser.py:119-138: the features of a description that lists n of them
extract_features(n) ==
    SubSeq([k \in 1..n |-> <<"feature", k>>], 1,
           IF n < FeatureLimit THEN n ELSE FeatureLimit)

\* prd_parser.py:157-240
parse_description_to_prd(n) ==
    LET features == extract_features(n)
    IN  PRD("New Project", "text",
            <<Story(1, "Project Setup", 1, FALSE)>>
            \o [i \in 1..Len(features) |->
                    Story(i + 1, <<"Implement", features[i]>>, i + 1, FALSE)]
            \o <<Story(Len(features) + 2, "Testing Implementation",
                       Len(features) + 2, FALSE),
                 Story(Len(features) + 3, "Documentation",
                       Len(features) + 3, FALSE)>>)

\* the answers of a clarify session, to the questions the builders read
AnswerChoices ==
    [tech_stack |-> {"Next.js with TypeScript", "Python"},
     auth_method |-> {"", "None needed", "OAuth"},
     external_apis |-> {"None", "Stripe"},
     mvp_scope |-> {"Full feature set", "Basic CRUD"},
     error_handling |-> {"All errors", "Comprehensive"},
     testing_level |-> {"Minimal", "Unit tests"}]

AnswerMaps ==
    UNION {{a \in [keys -> UNION {AnswerChoices[k] : k \in keys}] :
                \A k \in keys : a[k] \in AnswerChoices[k]} :
           keys \in SUBSET {"auth_method", "external_apis", "mvp_scope",
                            "error_handling", "testing_level"}}
    \cup {[tech_stack |-> t] : t \in AnswerChoices.tech_stack}

\* a session that has the answers
SessionWith(answers) ==
    [ClarifySession(1, "Demo", NoCustom, "enhance") EXCEPT
        !.answers = answers, !.current_question_index = MaxQuestions,
        !.is_complete = TRUE]

\* PRDs with unique positive ids and positive priorities, with titles that
\* differ from the builder's in case only or not at all
ExistingPRDs ==
    {PRD("Demo", "about", l) :
        l \in UNION {{e \in [1..n -> {Story(i, t, pr, FALSE) :
                                        i \in 1..MaxExisting, pr \in {1, 4},
                                        t \in {"user authentication",
                                               "Error Handling"}}] :
                        \A j, k \in 1..n : j # k => e[j].id # e[k].id} :
                     n \in 0..MaxExisting}}

\* what the builders are called with: answers and an existing PRD, or a
\* description
BuildInputs ==
    {[kind |-> "session", answers |-> a, existing |-> e, features |-> 0] :
        a \in AnswerMaps, e \in ExistingPRDs}
    \cup {[kind |-> "description", answers |-> NoAnswers,
           existing |-> EmptyPRDObject, features |-> n] :
                n \in 0..MaxFeatures}

\* prd_builder.py:11: the PRD of a session in create mode
call_build_prd ==
    /\ out.op = "none"
    /\ out.arg.kind = "session"
    /\ out' = [out EXCEPT !.op = "build_prd_from_session",
                  !.ret = build_prd_from_session(SessionWith(out.arg.answers))]
    /\ UNCHANGED <<loop, session, store, file>>

\* prd_builder.py:182: the PRD of a session in enhance mode, given an
\* existing PRD or the PRD a builder has just made
call_enhance_prd ==
    /\ out.op # "enhance_prd_from_session"
    /\ out.arg.kind = "session"
    /\ out' = [out EXCEPT
                  !.op = "enhance_prd_from_session",
                  !.arg.existing = IF out.op = "none" THEN @ ELSE out.ret,
                  !.ret = enhance_prd_from_session(
                              IF out.op = "none" THEN out.arg.existing
                              ELSE out.ret,
                              SessionWith(out.arg.answers))]
    /\ UNCHANGED <<loop, session, store, file>>

\* prd_parser.py:157: the PRD of a description
call_parse_description ==
    /\ out.op = "none"
    /\ out.arg.kind = "description"
    /\ out' = [out EXCEPT !.op = "parse_description_to_prd",
                  !.ret = parse_description_to_prd(out.arg.features)]
    /\ UNCHANGED <<loop, session, store, file>>

\* ---------------------------------------------------- RalphCommand.handle
\* the arguments of /ralph reset
ResetArgs ==
    {<<"reset">>, <<"reset", "--all">>, <<"reset", "-a">>, <<"reset", "--hard">>}

\* the short flag forgotten
reset_all_given_long_only(args) ==
    \E k \in 2..Len(args) : args[k] = "--all"

\* reset.py:19, 26: "--all" in args or "-a" in args, args = ctx.args[1:]
reset_all_given(args) ==
    LET rest == IF Len(args) > 1 THEN Tail(args) ELSE << >>
    IN  \E k \in 1..Len(rest) : rest[k] \in {"--all", "-a"}

\* start.py:37-64: the message handle_start returns instead of starting,
\* "" when it starts
start_refusal(s, b, f) ==
    IF is_running(s) THEN "A Ralph loop is already running"
    ELSE IF ~can_execute(b) THEN "Circuit breaker is OPEN"
    ELSE IF ~f.exists THEN "No prd.json found"
    ELSE IF all_complete(prd_load(f)) THEN "All stories are already complete"
    ELSE ""

\* a refusal that ends the session
handle_start_refused_ends(p) ==
    /\ run[p].pc = "idle"
    /\ start_refusal(state, breaker, prd) # ""
    /\ out' = [op |-> "start", arg |-> None,
               ret |-> Returned(start_refusal(state, breaker, prd)),
               steps |-> 0]
    /\ state' = IF state.exists
                THEN end_session(state, "Start refused", "HALTED") ELSE state
    /\ UNCHANGED <<breaker, prd, nextSid, run, clarify, save, overlap,
                   stop_seen, session, store, file>>

\* start.py:32-64: one of the checks fails and the command returns its message
handle_start_refused(p) ==
    /\ run[p].pc = "idle"
    /\ start_refusal(state, breaker, prd) # ""
    /\ out' = [op |-> "start", arg |-> None,
               ret |-> Returned(start_refusal(state, breaker, prd)),
               steps |-> 0]
    /\ UNCHANGED <<state, breaker, prd, nextSid, run, clarify, save, overlap,
                   stop_seen, session, store, file>>

\* stop.py:26-35: no state file, or a status that is not RUNNING
handle_stop_refused ==
    /\ ~(state.exists /\ state.status = "RUNNING")
    /\ out' = [op |-> "stop", arg |-> None,
               ret |-> Returned(IF ~state.exists
                                THEN "No Ralph session to stop"
                                ELSE "Ralph is not running"),
               steps |-> 0]
    /\ UNCHANGED <<loop, session, store, file>>

\* backend.py:316 with reset.py:13: handler(ctx, ralph_ctx) on a function of
\* one parameter raises TypeError before the handler's body runs
handler_call_reset(args) ==
    /\ out' = [op |-> "reset", arg |-> [args |-> args],
               ret |-> Raised("TypeError", << >>), steps |-> 0]
    /\ Differs(out', out)
    /\ UNCHANGED <<loop, session, store, file>>

\* backend.py:290-316: the subcommand's handler is looked up and called
\* with (ctx, ralph_ctx)
RalphCommand_handle(args) ==
    CASE args[1] = "start" -> handle_start(1) \/ handle_start_refused(1)
      [] args[1] = "stop" -> handle_stop \/ handle_stop_refused
      [] args[1] = "reset" -> handler_call_reset(args)

\* -------------------------------------------------------------------- Init
\* no /ralph start command, no PRD command and no write under way
Quiet ==
    /\ state = DefaultState
    /\ breaker = ClosedBreaker
    /\ nextSid = 1
    /\ run = [p \in Procs |-> Idle]
    /\ clarify = NoClarify
    /\ save = NoSave
    /\ overlap = [p \in Procs |-> {}]
    /\ stop_seen = [p \in Procs |-> FALSE]

Init ==
    /\ Quiet
    /\ prd \in {[exists |-> TRUE, stories |-> InitStories], EmptyPRD}
    /\ session = NoSessionHeld
    /\ store = NoStore
    /\ file = NoFile
    /\ out = NoCall

\* a new session over the default questions or over a list of questions
InitSession ==
    /\ Quiet
    /\ prd = EmptyPRD
    /\ session \in {ClarifySession(1, "Demo", custom_ids(q), "create") :
                        q \in QuestionLists}
    /\ store = NoStore
    /\ file = NoFile
    /\ out = NoCall

\* no clarify_sessions.json yet
InitStore ==
    /\ Quiet
    /\ prd = EmptyPRD
    /\ session = NoSessionHeld
    /\ store = NoStore
    /\ file = NoFile
    /\ out = NoCall

\* a prd.json with unique story identifiers, or none
InitManager ==
    /\ Quiet
    /\ prd \in {EmptyPRD} \cup {prd_save(l) : l \in StoryLists({1, 2})}
    /\ session = NoSessionHeld
    /\ store = NoStore
    /\ file = NoFile
    /\ out = NoCall

\* a prd.json of any kind, and a PRD object a command is about to save
InitFile ==
    /\ Quiet
    /\ prd = EmptyPRD
    /\ session = NoSessionHeld
    /\ store = NoStore
    /\ file \in TextFiles
    /\ out \in {[op |-> "none", arg |-> p, ret |-> Returned(None),
                  steps |-> 0] : p \in PRDObjects}

\* the answers, the existing PRD or the description a builder is given
InitBuild ==
    /\ Quiet
    /\ prd = EmptyPRD
    /\ session = NoSessionHeld
    /\ store = NoStore
    /\ file = NoFile
    /\ out \in {[op |-> "none", arg |-> i, ret |-> EmptyPRDObject,
                  steps |-> 0] : i \in BuildInputs}

\* --------------------------------------------------------------------- spec
\* one /ralph start command at a time, every outcome of the engine; with a
\* single command the breaker cannot open between the loop's own breaker
\* check and the runner's gate, so the gate's refusal is left to NextRace
Next ==
    \/ handle_start(1)
    \/ handle_start_loop(1)
    \/ \E resume \in ResumeTokens : run_impl_begin(1, resume)
    \/ \E o \in Outcomes : run_impl_finish(1, o)
    \/ handle_start_after_run(1)
    \/ handle_start_summary_sent(1)
    \/ handle_stop
    \/ \E reset_all \in BOOLEAN : handle_reset(reset_all)

Spec == Init /\ [][Next]_vars

\* the sends and the run_one that handle_start awaits return, and the
\* engine's run ends: a start command that can take its next step takes it
StartReturns ==
    /\ WF_vars(handle_start_loop(1))
    /\ WF_vars(\E resume \in ResumeTokens : run_impl_begin(1, resume))
    /\ WF_vars(\E o \in Outcomes : run_impl_finish(1, o))
    /\ WF_vars(handle_start_after_run(1))
    /\ WF_vars(handle_start_summary_sent(1))

SpecFair == Spec /\ StartReturns

\* the commands as RalphCommand.handle routes them, next to one start
\* command's loop, and handle_reset called with the one argument it takes;
\* the engine answers with a status block that reports no progress, work,
\* or work with the story finished
CommandOutcomes ==
    {[kind |-> "ok", answer |-> a, resume |-> TRUE] :
        a \in {Answer(TRUE, 0, FALSE, FALSE, FALSE),
               Answer(TRUE, 1, FALSE, FALSE, FALSE),
               Answer(TRUE, 1, FALSE, FALSE, TRUE)}}

NextCommands ==
    \/ \E args \in {<<"start">>, <<"stop">>} \cup ResetArgs :
            RalphCommand_handle(args)
    \/ handle_start_loop(1)
    \/ \E resume \in ResumeTokens : run_impl_begin(1, resume)
    \/ \E o \in CommandOutcomes : run_impl_finish(1, o)
    \/ handle_start_after_run(1)
    \/ handle_start_summary_sent(1)
    \/ \E args \in ResetArgs : handle_reset(reset_all_given(args))

SpecCommands == Init /\ [][NextCommands]_vars

\* a state file start.py:226-230 left PAUSED after c counted loops, the last
\* of them work on a story that is not finished
PausedState(c) ==
    [exists |-> TRUE, status |-> "PAUSED", current_loop |-> c,
     session_id |-> 1, exit_reason |-> "Paused (safety limit)",
     consecutive_no_progress |-> 0,
     last |-> IF c = 0 THEN NoResult
              ELSE to_loop_result(Answer(TRUE, 1, FALSE, FALSE, FALSE))]

\* one /ralph start on a PRD of any stories, fresh or resuming a paused
\* session, whose every iteration answers: files changed, story finished
InitProgress ==
    /\ breaker = ClosedBreaker
    /\ \/ state = DefaultState /\ nextSid = 1
       \/ state \in {PausedState(c) : c \in 0..(MaxLoops - 1)} /\ nextSid = 2
    /\ prd \in {prd_save(l) : l \in StoryLists({1, 2})}
    /\ run = [p \in Procs |-> Idle]
    /\ clarify = NoClarify
    /\ save = NoSave
    /\ overlap = [p \in Procs |-> {}]
    /\ stop_seen = [p \in Procs |-> FALSE]
    /\ session = NoSessionHeld
    /\ store = NoStore
    /\ file = NoFile
    /\ out = NoCall

ProgressOutcomes ==
    {[kind |-> "ok", answer |-> Answer(TRUE, 1, FALSE, FALSE, TRUE),
      resume |-> r] : r \in BOOLEAN}

NextProgress ==
    \/ handle_start(1)
    \/ handle_start_loop(1)
    \/ \E resume \in ResumeTokens : run_impl_begin(1, resume)
    \/ \E o \in ProgressOutcomes : run_impl_finish(1, o)
    \/ handle_start_after_run(1)
    \/ handle_start_summary_sent(1)

SpecProgress == InitProgress /\ [][NextProgress]_vars /\ StartReturns

\* two /ralph start commands in flight; the engine answers with a status
\* block that reports progress or none
RaceOutcomes ==
    {[kind |-> "ok", answer |-> Answer(TRUE, f, FALSE, FALSE, FALSE),
      resume |-> TRUE] : f \in {0, 1}}

NextRace ==
    \/ \E p \in Procs : handle_start(p)
    \/ \E p \in Procs : handle_start_loop(p)
    \/ \E p \in Procs : run_impl_blocked(p)
    \/ \E p \in Procs, resume \in ResumeTokens : run_impl_begin(p, resume)
    \/ \E p \in Procs, o \in RaceOutcomes : run_impl_finish(p, o)
    \/ \E p \in Procs : handle_start_after_run(p)
    \/ \E p \in Procs : handle_start_summary_sent(p)
    \/ handle_stop
    \/ \E reset_all \in BOOLEAN : handle_reset(reset_all)

SpecRace == Init /\ [][NextRace]_vars

\* one /ralph start command next to the PRD commands; the engine answers
\* with a status block that reports work, with or without the story finished
PRDOutcomes ==
    {[kind |-> "ok", answer |-> Answer(TRUE, 1, FALSE, FALSE, c),
      resume |-> TRUE] : c \in BOOLEAN}

NextPRD ==
    \/ handle_start(1)
    \/ handle_start_loop(1)
    \/ \E resume \in ResumeTokens : run_impl_begin(1, resume)
    \/ \E o \in PRDOutcomes : run_impl_finish(1, o)
    \/ handle_start_after_run(1)
    \/ handle_start_summary_sent(1)
    \/ handle_prd_clarify
    \/ \E r \in AnalysisResults : handle_prd_clarify_result(r)
    \/ complete_session
    \/ \E r \in AnalysisResults : complete_session_result(r)
    \/ \E t \in Titles : prd_add_story(t, 3)

SpecPRD == Init /\ [][NextPRD]_vars

\* one /ralph start command whose engine reports no modified file and no
\* error in every iteration, no stop and no reset, next to /ralph prd clarify
\* and added stories
NoProgressOutcomes ==
    {[kind |-> "ok", answer |-> Answer(TRUE, 0, FALSE, FALSE, FALSE),
      resume |-> r] : r \in BOOLEAN}

NextNoProgress ==
    \/ handle_start(1)
    \/ handle_start_loop(1)
    \/ \E resume \in ResumeTokens : run_impl_begin(1, resume)
    \/ \E o \in NoProgressOutcomes : run_impl_finish(1, o)
    \/ handle_start_after_run(1)
    \/ handle_prd_clarify
    \/ \E r \in AnalysisResults : handle_prd_clarify_result(r)
    \/ \E t \in Titles : prd_add_story(t, 3)

SpecNoProgress == Init /\ [][NextNoProgress]_vars

\* PRDManager.save step by step, as another process reading prd.json (the
\* engine's subprocess) can see it
NextSave ==
    \/ \E t \in Titles, pr \in {1, 3} : save_add_story(t, pr)
    \/ \E id \in 1..MaxStories : save_mark_complete(id)
    \/ atomic_write_chunk
    \/ atomic_write_fail
    \/ atomic_write_replace

SpecSave == Init /\ [][NextSave]_vars

\* one session, answered and skipped question by question
NextSession ==
    \/ \E a \in AnswerTexts : call_record_answer(a)
    \/ call_skip_question

SpecSession == InitSession /\ [][NextSession]_vars

\* one command at a time working on clarify_sessions.json, its write_text
\* step by step, and the get_session of a command in another process
NextStore ==
    \/ flow_create_session("Demo", {}, "create")
    \/ flow_create_session("Demo", {get_all_questions[1]}, "enhance")
    \/ \E id \in 1..MaxStored : flow_get_session(id)
    \/ clarify_record_answer("x")
    \/ clarify_skip_question
    \/ flow_update_session
    \/ \E id \in 1..MaxStored : flow_delete_session(id)
    \/ write_text_write
    \/ write_text_fail
    \/ \E id \in 1..MaxStored : other_get_session(id)

SpecStore == InitStore /\ [][NextStore]_vars

\* the PRDManager calls on a prd.json
NextManager ==
    \/ call_next_story
    \/ call_all_complete
    \/ \E id \in 1..MaxStories : call_mark_complete(id)

SpecManager == InitManager /\ [][NextManager]_vars

\* save, load and load_strict on a prd.json of any kind
NextFile ==
    \/ call_save
    \/ call_load
    \/ call_validate
    \/ call_load_strict

SpecFile == InitFile /\ [][NextFile]_vars

\* the PRD builders on every answer map, existing PRD and description
NextBuild ==
    \/ call_build_prd
    \/ call_enhance_prd
    \/ call_parse_description

SpecBuild == InitBuild /\ [][NextBuild]_vars

TypeOK ==
    /\ state.status \in {"IDLE", "RUNNING", "PAUSED", "HALTED", "COMPLETED"}
    /\ breaker.state \in {"CLOSED", "HALF_OPEN", "OPEN"}

\* ------------------------------------------------------------------ claims
\* p's runner invocation ran its engine call to a completion event in this step
IterationDone(p) ==
    /\ run[p].pc = "engine"
    /\ run'[p].pc = "after_run"
    /\ run'[p].last_answer # NoAnswer

\* p's engine call begins in this step
EngineBegins(p) == run[p].pc # "engine" /\ run'[p].pc = "engine"

\* C1: an engine call begins only in a step taken while the breaker is not
\* OPEN, with a gate observation that is not OPEN; the breaker leaves OPEN
\* only by becoming the reset breaker (CLOSED, counters zero).
C1_OpenBlocksIterations ==
    [][/\ \A p \in Procs :
            EngineBegins(p) =>
                breaker.state # "OPEN" /\ run'[p].circuit_state # "OPEN"
       /\ (breaker.state = "OPEN" /\ breaker'.state # "OPEN") =>
                breaker' = breaker_reset("User requested reset")]_vars

\* C1 witness: the breaker is OPEN and a runner invocation was refused at the gate
C1_Witness ==
    /\ breaker.state = "OPEN"
    /\ \E p \in Procs : /\ run[p].pc = "after_run"
                        /\ run[p].last_answer = NoAnswer
                        /\ Len(run[p].emitted) = 1

\* p's loop goes into another iteration in this step (start.py:104-154)
IterationEntered(p) == run[p].pc # "loop_send" /\ run'[p].pc = "loop_send"

\* C2: no two start commands each go into an iteration while the other one
\* is active.
C2_SingleActiveLoop ==
    \A p \in Procs, q \in Procs :
        p # q => ~(q \in overlap[p] /\ p \in overlap[q])

\* C3: a start command that was active when a stop ended the session goes
\* into no further iteration.
C3_StopObserved ==
    [][\A p \in Procs : stop_seen[p] => ~IterationEntered(p)]_vars

\* C4: a record whose status is HALTED or COMPLETED keeps that status as long
\* as it keeps its session id.
C4_TerminalStatus ==
    [][(/\ state.exists
        /\ state.status \in {"HALTED", "COMPLETED"}
        /\ state'.exists
        /\ state'.session_id = state.session_id)
       => state'.status = state.status]_vars

\* C5: within a session the loop counter never decreases, every iteration
\* whose engine call completed adds exactly one, and the counter of a record
\* drops only to 0 and only by start_session handing out a new session id.
C5_LoopCounter ==
    [][/\ (/\ state.exists /\ state'.exists
           /\ state'.session_id = state.session_id)
          => state'.current_loop >= state.current_loop
       /\ \A p \in Procs :
            IterationDone(p) =>
                state'.current_loop = state_load(state).current_loop + 1
       /\ (state'.exists /\ state'.current_loop < state.current_loop)
          => /\ state'.current_loop = 0
             /\ state'.status = "RUNNING"
             /\ state'.session_id = nextSid
             /\ nextSid' = nextSid + 1]_vars

\* C5 witness: a session that has counted several iterations
C5_Witness ==
    state.exists /\ state.session_id > 0 /\ state.current_loop >= 2

\* C6: a story whose passes flag is true in prd.json keeps it.
C6_PassesStays ==
    [][\A k \in 1..Len(prd.stories), j \in 1..Len(prd'.stories) :
            (prd.stories[k].passes /\ prd'.stories[j].id = prd.stories[k].id)
            => prd'.stories[j].passes]_vars

\* C7: a runner invocation that finds the breaker unable to execute yields
\* exactly one error completion with the breaker's reason, calls no engine and
\* leaves state.json, circuit_breaker.json and prd.json as they were.
C7_BlockedRunIsInert ==
    [][\A p \in Procs :
        (run[p].pc = "loop_send" /\ ~can_execute(breaker) /\ run'[p] # run[p])
        => /\ run'[p].pc = "after_run"
           /\ run'[p].emitted =
                 <<[type |-> "completed_error", error |-> breaker.reason]>>
           /\ state' = state
           /\ breaker' = breaker
           /\ prd' = prd]_vars

\* C7 witness: a refusal citing the no-progress reason, session still RUNNING
C7_Witness ==
    \E p \in Procs :
        /\ run[p].pc = "after_run"
        /\ run[p].emitted =
              <<[type |-> "completed_error", error |-> "No progress"]>>
        /\ state.status = "RUNNING"

\* C8: an engine run that ends in an error, raised or reported as a failed
\* completion event, leaves prd.json, state.json and circuit_breaker.json
\* as they were.
C8_EngineErrorFailsClosed ==
    [][\A p \in Procs :
        (/\ run[p].pc = "engine"
         /\ run'[p].pc = "after_run"
         /\ \/ run'[p].emitted = << >>
            \/ run'[p].emitted[1].type = "completed_error")
        => /\ state' = state
           /\ breaker' = breaker
           /\ prd' = prd]_vars

\* C9: an iteration whose answer carries no status block leaves the
\* consecutive counters of the state and of the breaker, and the PRD, as
\* they were.
C9_UnparsedIsNoSignal ==
    [][\A p \in Procs :
        (IterationDone(p) /\ ~run'[p].last_answer.parsed)
        => /\ state'.consecutive_no_progress =
                 state_load(state).consecutive_no_progress
           /\ breaker'.consecutive_no_progress = breaker.consecutive_no_progress
           /\ breaker'.consecutive_same_error = breaker.consecutive_same_error
           /\ prd' = prd]_vars

\* the iteration of this step ended the session with the given reason
SessionEnded(reason) ==
    state'.status = "COMPLETED" /\ state'.exit_reason = reason

\* the iteration of this step left status and exit reason alone
SessionKept ==
    /\ state'.status = state_load(state).status
    /\ state'.exit_reason = state_load(state).exit_reason

\* C10 as stated: after an iteration the session is ended if and only if
\* should_exit() is met.
C10_EndsIffShouldExit ==
    [][\A p \in Procs :
        IterationDone(p) =>
            LET ex == should_exit(state', prd_load(prd')) IN
            IF ex[1] THEN SessionEnded(ex[2]) ELSE SessionKept]_vars

\* C10 amended: after an iteration the session is ended if and only if
\* should_exit() is met or the answer carries the exit signal, also while
\* stories are pending.
C10_EndsIffShouldExitOrSignal ==
    [][\A p \in Procs :
        IterationDone(p) =>
            LET ex == should_exit(state', prd_load(prd')) IN
            IF ex[1] THEN SessionEnded(ex[2])
            ELSE IF analyze(run'[p].last_answer).exit_signal
                 THEN SessionEnded("Exit signal received")
                 ELSE SessionKept]_vars

\* C10 witness: an exit signal ended the session while stories are pending
C10_Witness ==
    \E p \in Procs :
        /\ run[p].pc = "after_run"
        /\ run[p].last_answer.exit_signal
        /\ ~all_complete(prd_load(prd))
        /\ state.status = "COMPLETED"
        /\ state.exit_reason = "Exit signal received"

\* C11: the runner selects the first incomplete story by priority when the
\* iteration begins; when the analysis reports the current story complete,
\* that story's passes flag is true afterwards and every other story is as
\* before; otherwise prd.json is as before.
C11_MarksSelectedStory ==
    [][\A p \in Procs :
        /\ EngineBegins(p) =>
                run'[p].current_story = next_story(prd_load(prd))
        /\ IterationDone(p) =>
                IF /\ analyze(run'[p].last_answer).current_story_complete
                   /\ run[p].current_story # 0
                THEN /\ Len(prd'.stories) = Len(prd.stories)
                     /\ \A k \in 1..Len(prd.stories) :
                            prd'.stories[k] =
                                IF prd.stories[k].id = run[p].current_story
                                THEN [prd.stories[k] EXCEPT !.passes = TRUE]
                                ELSE prd.stories[k]
                ELSE prd' = prd]_vars

\* C11 witness: an iteration reported its story complete and a story passes
C11_Witness ==
    /\ run[1].pc = "after_run"
    /\ run[1].last_answer.current_story_complete
    /\ \E k \in 1..Len(prd.stories) : prd.stories[k].passes

\* C12: a start command is at the gate or in the engine call of its
\* iteration n only when its n-1 earlier runner invocations have returned,
\* each having written its breaker record, PRD change and state update in
\* the step it returned in.
C12_SequentialIterations ==
    \A p \in Procs :
        run[p].pc \in {"loop_send", "engine"}
        => run[p].returned = run[p].iteration - 1

\* C12 witness: the engine call of a third iteration
C12_Witness ==
    \E p \in Procs :
        run[p].pc = "engine" /\ run[p].iteration = 3 /\ run[p].returned = 2

\* C13: an iteration with no modified file adds one to the breaker's
\* no-progress counter and at three the breaker cannot execute; an iteration
\* with modified files sets the counter to zero and does not open the
\* breaker; a reset makes the breaker able to execute with both counters zero.
C13_BreakerTrips ==
    [][/\ \A p \in Procs :
            IterationDone(p) =>
                IF analyze(run'[p].last_answer).files_modified = 0
                THEN /\ breaker'.consecutive_no_progress =
                            breaker.consecutive_no_progress + 1
                     /\ breaker'.consecutive_no_progress >= 3
                            => ~can_execute(breaker')
                ELSE /\ breaker'.consecutive_no_progress = 0
                     /\ can_execute(breaker) => can_execute(breaker')
       /\ (run' = run /\ breaker' # breaker) =>
                /\ can_execute(breaker')
                /\ breaker'.consecutive_no_progress = 0
                /\ breaker'.consecutive_same_error = 0]_vars

\* C13 witness: a streak of three opened the breaker after an iteration with
\* modified files had set the counter back
C13_Witness ==
    /\ breaker.state = "OPEN"
    /\ breaker.consecutive_no_progress = 3
    /\ state.exists
    /\ state.current_loop = 4

\* C14: when every iteration reports no modified file and no error, the
\* session never counts more than max_loops iterations, and once the start
\* command has returned the status is not RUNNING, the exit reason is the
\* opened breaker whose reason is the lack of progress, and the breaker is OPEN.
C14_NoProgressRunEnds ==
    /\ state.exists => state.current_loop <= MaxLoops
    /\ (run[1].pc = "idle" /\ state.exists) =>
            /\ state.status # "RUNNING"
            /\ state.exit_reason = halted_reason(breaker)
            /\ breaker.reason = "No progress"
            /\ breaker.state = "OPEN"

\* C14 witness: the start command returned after the third iteration
C14_Witness ==
    /\ run[1].pc = "idle"
    /\ state.status = "HALTED"
    /\ state.current_loop = 3
    /\ breaker.state = "OPEN"

\* C15: after an iteration should_exit() reports the ceiling exactly when the
\* session's loop counter has reached max_loops, and the session is then
\* ended with that reason; a resume from PAUSED keeps the counter.
C15_CeilingOverSession ==
    [][/\ \A p \in Procs :
            IterationDone(p) =>
                /\ (state'.current_loop >= MaxLoops) <=>
                      (should_exit(state', prd_load(prd')) =
                            <<TRUE, "Max loops reached">>)
                /\ state'.current_loop >= MaxLoops
                      => SessionEnded("Max loops reached")
       /\ (/\ state.exists /\ state.status = "PAUSED"
           /\ state'.status = "RUNNING"
           /\ state'.session_id = state.session_id)
          => state'.current_loop = state.current_loop]_vars

\* C15 witness: the first session reached the ceiling, over more iterations
\* than one start command runs
C15_Witness ==
    /\ state.session_id = 1
    /\ nextSid = 2
    /\ state.current_loop = MaxLoops
    /\ state.exit_reason = "Max loops reached"

\* C16: a step from PAUSED to RUNNING within a session changes nothing but
\* the status and the cleared exit reason, and within a session the status
\* goes back (towards RUNNING, or from a terminal status to PAUSED) only by
\* that step.
C16_ResumeOnlyBackward ==
    [][(/\ state.exists /\ state'.exists
        /\ state'.session_id = state.session_id)
       => /\ (state.status = "PAUSED" /\ state'.status = "RUNNING")
                => state' = [state EXCEPT !.status = "RUNNING",
                                          !.exit_reason = ""]
          /\ \/ state'.status = state.status
             \/ state.status = "RUNNING"
             \/ state.status = "PAUSED" /\ state'.status # "RUNNING"
             \/ state.status = "PAUSED" /\ state'.status = "RUNNING"
             \/ /\ state.status \in {"HALTED", "COMPLETED"}
                /\ state'.status \in {"HALTED", "COMPLETED"}]_vars

\* C17: the inner engine is always called with no resume token.
C17_FreshSession ==
    \A p \in Procs : run[p].pc = "engine" => run[p].engine_resume = NoToken

\* C17 witness: the engine call of a second iteration
C17_Witness ==
    /\ run[1].pc = "engine"
    /\ run[1].iteration = 2
    /\ run[1].engine_resume = NoToken

\* C18: the events of a runner invocation that has ended hold exactly one
\* completion event, and it is the last one.
C18_OneCompletionLast ==
    \A p \in Procs :
        run[p].pc = "after_run" =>
            LET ev == run[p].emitted
                done == {k \in 1..Len(ev) :
                            ev[k].type \in {"completed", "completed_error"}}
            IN Cardinality(done) = 1 /\ Len(ev) \in done

\* C19: an iteration whose engine call returned emits exactly one telemetry
\* event.
C19_TelemetryEveryIteration ==
    [][\A p \in Procs :
        IterationDone(p) =>
            Cardinality({k \in 1..Len(run'[p].emitted) :
                            run'[p].emitted[k].type = "telemetry"}) = 1]_vars

\* C20: prd.json changes only in the rename, from the complete old content
\* to the complete new content; a write that fails leaves prd.json as it was;
\* no temporary file is left once the write is over.
C20_AtomicSave ==
    [][/\ prd' # prd =>
            /\ save.pc = "write"
            /\ save.written = save.content
            /\ prd' = prd_save(save.content)
       /\ (save.pc = "write" /\ save'.failed) => prd' = prd
       /\ save'.pc = "idle" => ~save'.tmp]_vars

\* C20 witness: a write failed after part of the content was in the
\* temporary file
C20_Witness ==
    /\ save.failed
    /\ save.pc = "idle"
    /\ prd.exists

\* a record_answer or skip_question call was made in this step
RecordStep == Differs(out', out) /\ out'.op = "record_answer"

SkipStep == Differs(out', out) /\ out'.op = "skip_question"

\* a get_session of another command was made in this step
OtherGet(id) ==
    Differs(out', out) /\ out'.op = "get_session" /\ out'.arg = id

\* C21: a get_session that another command makes while a write of
\* clarify_sessions.json is under way finds every session that is stored
\* before and after that write.
C21_AtomicSessionStore ==
    [][\A id \in 1..MaxStored :
        (/\ OtherGet(id)
         /\ store.pc = "write"
         /\ id \in DOMAIN load_sessions(store.before)
         /\ id \in DOMAIN store.content)
        => out'.ret # None]_vars

\* C27: a clarify step moves the question index on by exactly one;
\* record_answer on a session with a current question stores the answer
\* under that question's id and changes no other answer; skip_question
\* leaves the answers as they are.
C27_StepAdvancesByOne ==
    [][/\ (RecordStep \/ SkipStep) =>
            session'.current_question_index
                = session.current_question_index + 1
       /\ (RecordStep /\ current_question(session) # NoQuestion) =>
            /\ DOMAIN session'.answers
                = DOMAIN session.answers \cup {current_question(session)}
            /\ session'.answers[current_question(session)] = out'.arg
            /\ \A q \in DOMAIN session.answers \ {current_question(session)} :
                    session'.answers[q] = session.answers[q]
       /\ SkipStep => session'.answers = session.answers]_vars

\* C27 witness: a second answer was stored next to the first
C27_Witness ==
    /\ out.op = "record_answer"
    /\ session.current_question_index = 2
    /\ Cardinality(DOMAIN session.answers) = 2

\* C28: a session over n questions is complete after exactly n steps: a
\* step before the n-th returns true and leaves the session incomplete with
\* a current question; the n-th step returns false and leaves the session
\* complete with no current question; a complete session has no current
\* question.
C28_CompletesAfterNSteps ==
    /\ [](/\ session.is_complete => current_question(session) = NoQuestion
          /\ session.is_complete <=> out.steps >= Len(get_questions(session)))
    /\ [][(RecordStep \/ SkipStep) =>
            /\ out'.steps < Len(get_questions(session)) =>
                /\ ~session.is_complete
                /\ out'.ret
                /\ ~session'.is_complete
                /\ current_question(session') # NoQuestion
            /\ out'.steps = Len(get_questions(session)) =>
                /\ ~session.is_complete
                /\ ~out'.ret
                /\ session'.is_complete
                /\ current_question(session') = NoQuestion]_vars

\* a create_session, update_session or delete_session returns in this step
FlowReturns == store.pc = "write" /\ store'.pc = "idle" /\ ~store'.failed

\* the fields of a stored session that get_session gives back
SameSession(got, s) ==
    /\ got # None
    /\ got.id = s.id
    /\ got.topic = s.topic
    /\ got.current_question_index = s.current_question_index
    /\ got.answers = s.answers
    /\ got.mode = s.mode
    /\ got.is_complete = s.is_complete

\* C29: get_session after create_session or update_session gives back the
\* id, topic, question index, answers, mode and completion flag that were
\* stored; after delete_session it gives None; every other stored session
\* is as it was before the call.
C29_SessionRoundTrip ==
    [][/\ FlowReturns =>
            /\ store.op \in {"create_session", "update_session"} =>
                SameSession(get_session(store'.file, store.arg.id), store.arg)
            /\ store.op = "delete_session" =>
                get_session(store'.file, store.arg.id) = None
            /\ \A id \in 1..MaxStored :
                id # store.arg.id
                => get_session(store'.file, id) = get_session(store.before, id)
       /\ (/\ store.pc = "idle"
           /\ store'.pc = "idle"
           /\ store' # store
           /\ store'.op = "delete_session") =>
            /\ get_session(store'.file, store'.arg.id) = None
            /\ store'.file = store.file]_vars

\* C29 witness: an update_session returned for a session with an answer,
\* next to another stored session
C29_Witness ==
    /\ store.op = "update_session"
    /\ store.pc = "idle"
    /\ ~store.failed
    /\ Cardinality(DOMAIN load_sessions(store.file)) = 2
    /\ get_session(store.file, store.arg.id) # None
    /\ get_session(store.file, store.arg.id).current_question_index >= 1
    /\ get_session(store.file, store.arg.id).answers # NoAnswers

\* C22: next_story returns an incomplete story such that no incomplete story
\* has a lower priority value, or the same priority value and a lower id; it
\* returns none exactly when all_complete is true.
C22_NextStoryIsLowest ==
    out.op = "next_story" =>
        LET stories == prd_load(prd)
        IN  /\ out.ret = 0 <=> all_complete(stories)
            /\ out.ret # 0 =>
                \E k \in 1..Len(stories) :
                    /\ stories[k].id = out.ret
                    /\ ~stories[k].passes
                    /\ \A j \in 1..Len(stories) :
                        ~stories[j].passes =>
                            \/ stories[k].priority < stories[j].priority
                            \/ /\ stories[k].priority = stories[j].priority
                               /\ stories[k].id <= stories[j].id

\* C22 witness: the story returned is not the first incomplete story of the
\* file, which has the same priority and a higher id
C22_Witness ==
    /\ out.op = "next_story"
    /\ Len(prd_load(prd)) >= 2
    /\ ~prd_load(prd)[1].passes
    /\ prd_load(prd)[1].id > out.ret
    /\ \E k \in 2..Len(prd_load(prd)) :
        /\ prd_load(prd)[k].id = out.ret
        /\ prd_load(prd)[k].priority = prd_load(prd)[1].priority

\* a mark_complete(id) call was made in this step
MarkStep(id) ==
    Differs(out', out) /\ out'.op = "mark_complete" /\ out'.arg = id

\* C23: mark_complete returns true for a story that exists and is
\* incomplete, and false when called again; it returns false for an id no
\* story has; when it returns false prd.json is as it was.
C23_MarkCompleteIdempotent ==
    [][\A id \in 1..MaxStories :
        MarkStep(id) =>
            LET stories == prd_load(prd)
                ret == out'.ret[Len(out'.ret)]
            IN  /\ (\E k \in 1..Len(stories) :
                        stories[k].id = id /\ ~stories[k].passes) => ret
                /\ (Len(out'.ret) = 2 /\ out'.ret[1]) => ~ret
                /\ (\A k \in 1..Len(stories) : stories[k].id # id) => ~ret
                /\ ~ret => prd' = prd]_vars

\* C23 witness: two calls in a row for one story returned true, then false
C23_Witness ==
    /\ out.op = "mark_complete"
    /\ out.ret = <<TRUE, FALSE>>

Unusable(f) ==
    \/ ~f.exists
    \/ f.text.kind = "garbage"
    \/ f.text.kind \in {"number", "object"} /\ validation_errors(f.text) # << >>

\* C25: on a prd.json that is missing, not JSON or not in the schema, load
\* returns the empty PRD without raising and load_strict raises a
\* validation error whose error list has at least one message.
C25_LoadSwallowsStrictRaises ==
    Unusable(file) =>
        /\ out.op = "load" => out.ret = Returned(EmptyPRDObject)
        /\ out.op = "load_strict" =>
            /\ out.ret.raised = "PRDValidationError"
            /\ Len(out.ret.errors) >= 1

\* the builders' calls
BuilderOps ==
    {"build_prd_from_session", "enhance_prd_from_session",
     "parse_description_to_prd"}

\* C26: in every PRD a builder returns the story ids are positive and
\* pairwise different and the priorities are positive.
C26_BuiltIdsUnique ==
    out.op \in BuilderOps =>
        \A j, k \in 1..Len(out.ret.stories) :
            /\ out.ret.stories[k].id >= 1
            /\ out.ret.stories[k].priority >= 1
            /\ j # k => out.ret.stories[j].id # out.ret.stories[k].id

\* C26 witness: enhance_prd_from_session added two stories to an existing
\* PRD whose ids do not come in order
C26_Witness ==
    /\ out.op = "enhance_prd_from_session"
    /\ Len(out.arg.existing.stories) = 2
    /\ out.arg.existing.stories[1].id > out.arg.existing.stories[2].id
    /\ Len(out.ret.stories) >= 4

\* C30: the PRD enhance_prd_from_session returns starts with the existing
\* stories, unmodified and in order; no added story has the title of an
\* existing story up to case; every added story has an id and a priority
\* above those of every existing story.
C30_EnhanceKeepsExisting ==
    out.op = "enhance_prd_from_session" =>
        LET old == out.arg.existing.stories
            new == out.ret.stories
        IN  /\ Len(new) >= Len(old)
            /\ SubSeq(new, 1, Len(old)) = old
            /\ \A k \in (Len(old) + 1)..Len(new) :
                \A j \in 1..Len(old) :
                    /\ lower(new[k].title) # lower(old[j].title)
                    /\ new[k].id > old[j].id
                    /\ new[k].priority > old[j].priority

\* C30 witness: the session asks for authentication and for error handling;
\* the existing PRD has "user authentication", and only the other story is
\* added
C30_Witness ==
    /\ out.op = "enhance_prd_from_session"
    /\ Get(out.arg.answers, "auth_method", "") = "OAuth"
    /\ Get(out.arg.answers, "error_handling", "") = "Comprehensive"
    /\ Len(out.arg.existing.stories) = 1
    /\ out.arg.existing.stories[1].title = "user authentication"
    /\ Len(out.ret.stories) = 2
    /\ out.ret.stories[2].title = "Error Handling"

\* the titles of a PRD's stories
TitlesOf(p) == {p.stories[k].title : k \in 1..Len(p.stories)}

\* C31: the PRD built from a session's answers has at least one story, its
\* first story is 'Project Setup', every story has at least one acceptance
\* criterion, 'User Authentication' is among the stories exactly when the
\* auth_method answer is non-empty and not 'None needed', and 'Testing
\* Implementation' exactly when the testing_level answer (default
\* 'Minimal') is not 'Minimal'.
C31_BuiltStoriesFollowAnswers ==
    out.op = "build_prd_from_session" =>
        LET stories == out.ret.stories
            auth_method == Get(out.arg.answers, "auth_method", "")
            testing_level == Get(out.arg.answers, "testing_level", "Minimal")
        IN  /\ Len(stories) >= 1
            /\ stories[1].title = "Project Setup"
            /\ \A k \in 1..Len(stories) :
                    Len(acceptance_criteria(stories[k].title)) >= 1
            /\ "User Authentication" \in TitlesOf(out.ret)
                    <=> (auth_method # "" /\ auth_method # "None needed")
            /\ "Testing Implementation" \in TitlesOf(out.ret)
                    <=> testing_level # "Minimal"

\* C31 witness: a PRD built from answers that ask for authentication and
\* for tests
C31_Witness ==
    /\ out.op = "build_prd_from_session"
    /\ Get(out.arg.answers, "auth_method", "") = "OAuth"
    /\ Get(out.arg.answers, "testing_level", "Minimal") = "Unit tests"
    /\ {"User Authentication", "Testing Implementation"}
            \subseteq TitlesOf(out.ret)

\* p's loop is left in this step after the body of an iteration
\* (start.py:211-235)
LeavesAfterIteration(p) ==
    /\ run[p].pc \in {"after_run", "summary_send"}
    /\ run'[p].pc = "idle"

\* PAUSED is written in this step
PausedWritten == state'.status = "PAUSED" /\ state' # state

\* C32: a start command returns, and it makes at most
\* MAX_ITERATIONS_PER_START engine iterations; when its last iteration is
\* over with the session RUNNING and stories pending, the record becomes
\* PAUSED with the safety-limit reason; PAUSED is written by no other step.
C32_PausedOnlyAtLimit ==
    /\ [](\A p \in Procs : /\ run[p].iteration <= MAX_ITERATIONS_PER_START
                            /\ run[p].returned <= MAX_ITERATIONS_PER_START)
    /\ [][/\ \A p \in Procs :
               (/\ LeavesAfterIteration(p)
                /\ run[p].iteration = MAX_ITERATIONS_PER_START
                /\ state_load(state).status = "RUNNING"
                /\ ~all_complete(prd_load(prd)))
               => /\ state'.status = "PAUSED"
                  /\ state'.exit_reason = "Paused (safety limit)"
          /\ PausedWritten =>
               \E p \in Procs :
                   /\ LeavesAfterIteration(p)
                   /\ run[p].iteration = MAX_ITERATIONS_PER_START
                   /\ state_load(state).status = "RUNNING"
                   /\ ~all_complete(prd_load(prd))]_vars
    /\ \A p \in {1} : Active(p) ~> ~Active(p)

\* p's next step is the top of an iteration (start.py:104-108): the first
\* one, or the one after an iteration that neither returned nor hit the limit
AtLoopTop(p) ==
    \/ run[p].pc = "announce"
    \/ /\ \/ /\ run[p].pc = "after_run"
              /\ ~SendsSummary(state_load(state).last)
              /\ state_load(state).status = "RUNNING"
           \/ /\ run[p].pc = "summary_send"
              /\ run[p].status = "RUNNING"
       /\ ~all_complete(prd_load(prd))
       /\ run[p].iteration < MAX_ITERATIONS_PER_START

\* HALTED is written in this step
HaltedWritten == state'.status = "HALTED" /\ state' # state

\* C33: a start loop that finds the breaker OPEN at the top of an iteration
\* ends the session HALTED with a reason that cites the breaker's, and
\* returns without an engine call; HALTED is written by no other step, and
\* only over a record that is RUNNING.
C33_HaltedOnlyAtLoopTop ==
    [][/\ \A p \in Procs :
            (AtLoopTop(p) /\ run'[p] # run[p] /\ ~can_execute(breaker))
            => /\ state'.status = "HALTED"
               /\ state'.exit_reason = halted_reason(breaker)
               /\ run'[p].pc = "idle"
       /\ HaltedWritten =>
            /\ \E p \in Procs :
                    AtLoopTop(p) /\ run'[p].pc = "idle" /\ ~can_execute(breaker)
            /\ state_load(state).status = "RUNNING"]_vars

\* the runner of this step's iteration called end_session: status or exit
\* reason are not the ones the record had
RunnerEnded(p) == IterationDone(p) /\ ~SessionKept

\* C34: a session that the runner ends is COMPLETED, whether should_exit()
\* fired for the ceiling or for the lack of progress or only the exit
\* signal was set; the exit reason is should_exit's reason when it has one
\* and 'Exit signal received' otherwise.
C34_RunnerEndsCompleted ==
    [][\A p \in Procs :
        /\ RunnerEnded(p) =>
                /\ state'.status = "COMPLETED"
                /\ state'.exit_reason =
                        IF should_exit(state', prd_load(prd'))[2] # ""
                        THEN should_exit(state', prd_load(prd'))[2]
                        ELSE "Exit signal received"
        /\ IterationDone(p) =>
                /\ state'.current_loop >= MaxLoops
                        => SessionEnded("Max loops reached")
                /\ (/\ state'.current_loop < MaxLoops
                    /\ state'.consecutive_no_progress > StateNoProgressLimit)
                        => SessionEnded("No progress")
                /\ (/\ ~should_exit(state', prd_load(prd'))[1]
                    /\ analyze(run'[p].last_answer).exit_signal)
                        => SessionEnded("Exit signal received")]_vars

\* C34 witness: the runner ended a session for the lack of progress, below
\* the ceiling
C34_Witness ==
    /\ run[1].pc = "after_run"
    /\ state.status = "COMPLETED"
    /\ state.exit_reason = "No progress"
    /\ state.current_loop < MaxLoops

\* the step hands no new result to a caller
SameCall == ~Differs(out', out)

RoutedReset == Differs(out', out) /\ out'.op = "reset"

\* C36: a /ralph reset routed through RalphCommand.handle returns, and the
\* breaker that /ralph start reads is the reset breaker afterwards, so that
\* start is no longer refused for an open breaker.
C36_RoutedResetResets ==
    [][RoutedReset =>
        /\ out'.ret.raised = "none"
        /\ breaker' = breaker_reset("User requested reset")
        /\ start_refusal(state', breaker', prd') # "Circuit breaker is OPEN"]_vars

\* a /ralph start returned its refusal in this step
StartRefused == Differs(out', out) /\ out'.op = "start"

C38_StopFrame ==
    [][((SameCall /\ handle_stop) \/ (out'.op = "stop" /\ handle_stop_refused)) =>
        /\ IF state.exists /\ state.status = "RUNNING"
           THEN /\ state'.status = "COMPLETED"
                /\ state'.exit_reason = "User requested stop"
                /\ state'.current_loop = state.current_loop
                /\ state'.session_id = state.session_id
                /\ state'.last = state.last
                /\ state'.exists
           ELSE state' = state
        /\ prd' = prd
        /\ breaker' = breaker]_vars

\* C38 witness: a stop ended a session that had counted iterations, and a
\* second stop was refused
C38_Witness ==
    /\ out.op = "stop"
    /\ out.ret.ret = "Ralph is not running"
    /\ state.status = "COMPLETED"
    /\ state.exit_reason = "User requested stop"
    /\ state.current_loop >= 1

\* the stories of prd.json that do not pass
PendingNow == Pending(prd_load(prd))

\* the k stories fit into the iterations of one start command
WithinStart(p) ==
    run[p].returned + Cardinality(PendingNow) <= MAX_ITERATIONS_PER_START

\* the session's loop counter leaves room for one loop per pending story
WithinLoops ==
    state_load(state).current_loop + Cardinality(PendingNow) <= MaxLoops

\* every iteration marks the story next_story names, and no other
MarksNextStory(p) ==
    IterationDone(p) =>
        /\ PendingNow # {}
        /\ prd' = mark_complete(prd, next_story(prd_load(prd)))
        /\ Cardinality(Pending(prd_load(prd'))) = Cardinality(PendingNow) - 1

\* the command returns with every story passing and the session COMPLETED
ReturnsComplete(p) ==
    (Active(p) /\ ~Active(p)') =>
        /\ all_complete(prd_load(prd'))
        /\ state'.status = "COMPLETED"

ReportsValid(f) ==
    /\ PRDManager_validate(f).raised = "none"
    /\ PRDManager_validate(f).ret = << >>

\* C40: on every prd.json the three calls agree: whenever load returns,
\* validate returns a verdict; load_strict returns a PRD exactly when
\* validate reports the file valid; and load returns the PRD parsed from the
\* file when validate reports it valid, and the empty PRD when it does not.
C40_ValidateLoadAgree ==
    (out.op \in {"load", "validate", "load_strict"}) =>
        /\ PRDManager_load(file).raised = "none" =>
                PRDManager_validate(file).raised = "none"
        /\ PRDManager_load_strict(file).raised = "none" <=> ReportsValid(file)
        /\ PRDManager_load(file).raised = "none" =>
                PRDManager_load(file).ret =
                    IF ReportsValid(file) THEN model_validate(file.text)
                    ELSE EmptyPRDObject

====
